---- MODULE Spec2Model ----
(***************************************************************************)
(* A model of the normflow sampling core:                                  *)
(*   - Metropolis (src/mcmc/mcmc.py): calc_accept_status,                  *)
(*     calc_accept_indices;                                                *)
(*   - MCMCSampler and BlockedMCMCSampler (src/mcmc/mcmc.py);              *)
(*   - Mask (src/mask/mask.py);                                            *)
(*   - the coupling lists (src/nn/scalar/couplings_v2_.py).                *)
(* Real numbers are modelled by integers (exact arithmetic).  An optional  *)
(* value of the source is None or Some(v).                                 *)
(***************************************************************************)
EXTENDS Integers, Sequences, FiniteSets, TLC

VARIABLES
    \* ---- Metropolis: one evaluation of the static methods
    logqp,        \* argument logqp of calc_accept_status
    rand_arr,     \* np.log(np.random.rand(n)) drawn inside calc_accept_status
    logqp_ref,    \* argument logqp_ref of calc_accept_status (None when absent)
    status,       \* the returned status / the argument of calc_accept_indices
    indices,      \* the result of calc_accept_indices
    mpc,          \* position of the evaluation
    \* ---- MCMCSampler / BlockedMCMCSampler: the fields of one sampler
    ref,          \* self._ref: sample, logq, logp, logqp
    history,      \* self.history: the sequences of MCMCHistory
    \* ---- MCMCSampler: what the sampler was fed and what it returned
    proposals,    \* every raw proposal drawn by raw_dist.sample_, in order
    draws,        \* every log-uniform draw of calc_accept_status, in order
    calls,        \* the batch_size of every sample_ call, in order
    emitted,      \* the concatenation of the batches sample_ returned
    chain_status, \* the concatenation of the accept_seq of every call
    ref_writes,   \* how many times _ref was written
    bookkept,     \* the bookkeeping argument of every sample_ call, in order
    \* ---- Mask: one mask, one input and the results of split and cat
    mask_self,    \* the Mask object: shape, mask, cat_mask, keepshape
    x_in,         \* the tensor x given to split
    x_split,      \* the pair split(x) returned
    x_cat,        \* the tensor cat(*split(x)) returned
    kpc,          \* position: "split_call", "cat_call", "cat_done", "cat_raised"
    \* ---- coupling lists: one engine, one input, one forward and backward
    cpl_self,     \* the engine: class, control variant, nets, mask, zee2sym,
                  \* and self.control of CntrCouplingList_
    cpl_x,        \* the input x of forward (and the control given with it)
    cpl_fwd,      \* what forward returned, and the layers it visited
    cpl_bwd,      \* what backward returned, and the layers it visited
    cpc,          \* position: "new", "forwarded", "inverted"
    cpl_gen,      \* the controls control_generator gave, in order, and which
                  \* of them the forward that returned cpl_fwd was given
    \* ---- BlockedMCMCSampler: the prior, and the sample_ call under way
    prior,        \* the prior: nvar and the block updater set up last
    bx,           \* the pre-image configuration x, updated in place
    bref,         \* the carried logqp_ref of sample_ and sweep
    bcall,        \* arguments and locals of the sample_ call, and the
                  \* _ref, history and prior it found on entry
    bpc,          \* position: "idle", "sweep", "finish"
    bres,         \* how the last sample_ call ended
    blast,        \* the last block update of sweep: what it saw and decided
    bnum,         \* the sample_ calls and the sweeps made so far
    \* ---- transfer: one engine and one transfer call
    tr_self,      \* the engine transfer is called on
    tr_arg,       \* the arguments scale_factor and mask
    tr_out,       \* what the call raised, and the engine it returned
    tpc,          \* position: "call", "done"
    \* ---- serial_sample_generator: one generator object
    gen,          \* its arguments, locals and position, and what it yielded
    \* ---- calc_accept_rate and calc_accept_count: the last evaluation
    rate_out,     \* what calc_accept_rate computed, and when
    count_out     \* what calc_accept_count returned or raised

metVars == <<logqp, rand_arr, logqp_ref, status, indices, mpc>>
objVars == <<ref, history>>
smpVars == <<proposals, draws, calls, emitted, chain_status, ref_writes, bookkept>>
mskVars == <<mask_self, x_in, x_split, x_cat, kpc>>
cplVars == <<cpl_self, cpl_x, cpl_fwd, cpl_bwd, cpc, cpl_gen>>
blkVars == <<prior, bx, bref, bcall, bpc, bres, blast, bnum>>

trnVars == <<tr_self, tr_arg, tr_out, tpc>>
extVars == <<trnVars, gen, rate_out, count_out>>

vars == <<metVars, objVars, smpVars, mskVars, cplVars, blkVars, extVars>>

None == <<>>
Some(v) == <<v>>
Val(o) == o[1]

\* ------------------------------------------------------------------ bounds
MaxLen == 4
MaxChain == 3
MaxDim == 3
MaxLayers == 3

\* ----------------------------------------------------------------- helpers
Max(S) == CHOOSE m \in S : \A k \in S : k <= m

SeqsUpTo(S, n) == UNION {[1..k -> S] : k \in 0..n}

\* the function f on 1..n as the tuple <<f[1], ..., f[n]>>
AsTuple(f) == f \o <<>>

RECURSIVE SumSeq(_)
SumSeq(sq) == IF sq = <<>> THEN 0 ELSE sq[1] + SumSeq(Tail(sq))

\* =========================================================================
\* Metropolis
\* =========================================================================

\* mcmc.py:294   status[i] = rand_arr[i] < (logqp_ref - logqp_i)
AcceptReversed(r, cur, lq) == r < lq - cur
Accept(r, cur, lq) == r < cur - lq

\* mcmc.py:295-296   if status[i]: logqp_ref = logqp_i
UpdateRefNever(acc, cur, lq) == cur
UpdateRef(acc, cur, lq) == IF acc THEN lq ELSE cur

\* mcmc.py:293-296, the loop from entry i on, with the running reference cur
RECURSIVE StatusLoop(_, _, _, _, _)
StatusLoop(lq, r, i, cur, st) ==
    IF i > Len(lq) THEN st
    ELSE LET acc == Accept(r[i], cur, lq[i])
         IN StatusLoop(lq, r, i + 1, UpdateRef(acc, cur, lq[i]), Append(st, acc))

\* mcmc.py:289-290   if logqp_ref is None: logqp_ref = logqp[0]
StartRefZero(lq, ref0) == IF ref0 = None THEN 0 ELSE Val(ref0)
StartRef(lq, ref0) == IF ref0 = None THEN lq[1] ELSE Val(ref0)

\* mcmc.py:286-297
calc_accept_status(lq, r, ref0) == StatusLoop(lq, r, 1, StartRef(lq, ref0), <<>>)

\* mcmc.py:302-308: indices are the source's 0-based positions
RECURSIVE IndicesLoop(_, _, _, _)
IndicesLoop(seq, i, cntr, ind) ==
    IF i > Len(seq) THEN ind
    ELSE LET c == IF seq[i] THEN i - 1 ELSE cntr
         IN IndicesLoop(seq, i + 1, c, Append(ind, c))

calc_accept_indices_first(seq) == [i \in 1..Len(seq) |-> IF seq[i] THEN i - 1 ELSE 0]
calc_accept_indices(seq) == IndicesLoop(seq, 1, 0, <<>>)

\* ---- the inputs of one evaluation
LogqpVals == {-10, -5, 0, 20}
LrandVals == {-50, -1}
RefVals == {None, Some(0), Some(-11)}

InitStatusInputs ==
    /\ \E n \in 0..MaxLen :
          /\ logqp \in [1..n -> LogqpVals]
          /\ rand_arr \in [1..n -> LrandVals]
    /\ logqp_ref \in RefVals
    /\ status = <<>>
    /\ indices = <<>>
    /\ mpc = "status_call"

InitIndicesInput ==
    /\ logqp = <<>>
    /\ rand_arr = <<>>
    /\ logqp_ref = None
    /\ status \in SeqsUpTo(BOOLEAN, MaxLen)
    /\ indices = <<>>
    /\ mpc = "indices_call"

\* mcmc.py:18-21 and 206-216: a sampler as constructed
InitSampler ==
    /\ ref = [sample |-> None, logq |-> None, logp |-> None, logqp |-> None]
    /\ history = [logq |-> <<>>, logp |-> <<>>, raw_logq |-> <<>>,
                  raw_logp |-> <<>>, accept_seq |-> <<>>, accept_ind |-> <<>>,
                  accept_rate |-> <<>>]
    /\ proposals = <<>>
    /\ draws = <<>>
    /\ calls = <<>>
    /\ emitted = <<>>
    /\ chain_status = <<>>
    /\ ref_writes = 0
    /\ bookkept = <<>>

\* no evaluation of the static methods under way
IdleMetropolis ==
    /\ logqp = <<>>
    /\ rand_arr = <<>>
    /\ logqp_ref = None
    /\ status = <<>>
    /\ indices = <<>>
    /\ mpc = "idle"

\* no mask under study
IdleMask ==
    /\ mask_self = None
    /\ x_in = None
    /\ x_split = None
    /\ x_cat = None
    /\ kpc = "idle"

\* no coupling list under study
IdleCoupling ==
    /\ cpl_self = None
    /\ cpl_x = None
    /\ cpl_fwd = None
    /\ cpl_bwd = None
    /\ cpc = "idle"
    /\ cpl_gen = None

\* no blocked sampling under way
IdleBlocked ==
    /\ prior = None
    /\ bx = None
    /\ bref = None
    /\ bcall = None
    /\ bpc = "idle"
    /\ bres = None
    /\ blast = None
    /\ bnum = None

\* nothing else under study
IdleTransfer ==
    /\ tr_self = None
    /\ tr_arg = None
    /\ tr_out = None
    /\ tpc = "idle"

IdleGenerator == gen = None

IdleRate == rate_out = None

IdleCount == count_out = None

IdleExt == IdleTransfer /\ IdleGenerator /\ IdleRate /\ IdleCount

InitMetropolis ==
    /\ InitStatusInputs \/ InitIndicesInput
    /\ InitSampler /\ IdleMask /\ IdleCoupling /\ IdleBlocked /\ IdleExt

\* calc_accept_status returns
CalcAcceptStatus ==
    /\ mpc = "status_call"
    /\ ~(logqp_ref = None /\ Len(logqp) = 0)
    /\ status' = calc_accept_status(logqp, rand_arr, logqp_ref)
    /\ mpc' = "status_done"
    /\ UNCHANGED <<logqp, rand_arr, logqp_ref, indices, objVars, smpVars, mskVars, cplVars, blkVars, extVars>>

\* calc_accept_status raises: logqp[0] of an empty array (mcmc.py:290)
CalcAcceptStatusRaise ==
    /\ mpc = "status_call"
    /\ logqp_ref = None /\ Len(logqp) = 0
    /\ mpc' = "IndexError"
    /\ UNCHANGED <<logqp, rand_arr, logqp_ref, status, indices, objVars, smpVars, mskVars, cplVars, blkVars, extVars>>

\* calc_accept_indices returns
CalcAcceptIndices ==
    /\ mpc \in {"status_done", "indices_call"}
    /\ indices' = calc_accept_indices(status)
    /\ mpc' = IF mpc = "status_done" THEN "both_done" ELSE "indices_done"
    /\ UNCHANGED <<logqp, rand_arr, logqp_ref, status, objVars, smpVars, mskVars, cplVars, blkVars, extVars>>

NextMetropolis == CalcAcceptStatus \/ CalcAcceptStatusRaise \/ CalcAcceptIndices

SpecMetropolis == InitMetropolis /\ [][NextMetropolis]_vars

\* ------------------------------------------------------- claims C1 .. C3

StatusReturned == mpc \in {"status_done", "both_done"}
IndicesReturned == mpc \in {"both_done", "indices_done"}

AcceptedUpTo(i) == {j \in 1..i : status[j]}

\* the reference entry i is tested against: the last entry accepted before
\* i, and the starting reference when there is none
RunningRef(i) ==
    IF AcceptedUpTo(i - 1) # {} THEN logqp[Max(AcceptedUpTo(i - 1))]
    ELSE IF logqp_ref = None THEN logqp[1]
    ELSE Val(logqp_ref)

\* C1: calc_accept_status returns one boolean per entry; entry i is accepted
\* iff log(u_i) < reference - logqp[i], where the reference is logqp_ref
\* (logqp[0] when logqp_ref is None) until an entry is accepted and, from
\* then on, the logqp of the last accepted entry before i.
C1_RunningReference ==
    StatusReturned =>
        /\ Len(status) = Len(logqp)
        /\ \A i \in 1..Len(logqp) :
              status[i] <=> (rand_arr[i] < RunningRef(i) - logqp[i])

C1_Witness ==
    /\ mpc = "status_done"
    /\ Len(status) = 4
    /\ ~status[1] /\ status[2] /\ ~status[3] /\ status[4]
    /\ logqp[2] # logqp[4]

\* the example of the specification, in tenths:
\* logqp = [0, -1, 2, -0.5], log(u) = [-0.1, -0.1, -0.1, -5], reference None
ExampleInput ==
    /\ mpc = "both_done"
    /\ logqp = <<0, -10, 20, -5>>
    /\ rand_arr = <<-1, -1, -1, -50>>
    /\ logqp_ref = None

\* C2 as stated: the example yields status [True, False, True, False] and
\* indices [0, 0, 2, 2].
C2_ExampleAsStated ==
    ExampleInput =>
        /\ status = <<TRUE, FALSE, TRUE, FALSE>>
        /\ indices = <<0, 0, 2, 2>>

\* C2: on the example, calc_accept_status yields
\* [True, True, False, True] and calc_accept_indices of it [0, 1, 1, 3].
C2_Example ==
    ExampleInput =>
        /\ status = <<TRUE, TRUE, FALSE, TRUE>>
        /\ indices = <<0, 1, 1, 3>>

C2_Witness == ExampleInput /\ Len(indices) = 4

\* C3: calc_accept_indices maps position i to the largest accepted position
\* at or before i, and to 0 when there is none; so indices[i] <= i and the
\* indices never decrease.  (Positions are the source's, 0-based.)
C3_LastAcceptedIndex ==
    IndicesReturned =>
        /\ Len(indices) = Len(status)
        /\ \A i \in 1..Len(status) :
              /\ indices[i] = IF AcceptedUpTo(i) = {} THEN 0
                              ELSE Max(AcceptedUpTo(i)) - 1
              /\ indices[i] <= i - 1
              /\ i > 1 => indices[i - 1] <= indices[i]
        /\ Len(status) > 0 => indices[1] = 0

C3_Witness ==
    /\ mpc = "indices_done"
    /\ status = <<FALSE, FALSE, TRUE, FALSE>>
    /\ indices = <<0, 0, 2, 2>>

\* =========================================================================
\* MCMCSampler
\* =========================================================================

Last(sq) == sq[Len(sq)]

\* np.mean of a boolean array, as the fraction num / den
Mean(seq) == [num |-> Cardinality({i \in 1..Len(seq) : seq[i]}), den |-> Len(seq)]

\* mcmc.py:60   seize(logq - logp)
LogqpOf(batch) == [i \in 1..Len(batch) |-> batch[i].logq - batch[i].logp]

\* mcmc.py:63-64   a rejected first proposal is replaced by the reference
SubstituteFirstNever(batch, accept_seq, r) == batch
SubstituteFirst(batch, accept_seq, r) ==
    IF ~accept_seq[1]
    THEN [batch EXCEPT ![1] = [y |-> Val(r.sample), logq |-> Val(r.logq),
                               logp |-> Val(r.logp)]]
    ELSE batch

\* mcmc.py:69-71   index_select(0, accept_ind)
IndexSelect(batch, accept_ind) ==
    [i \in 1..Len(accept_ind) |-> batch[accept_ind[i] + 1]]

\* mcmc.py:74-77   the reference for the next round
UpdateRefFromFirst(y) ==
    [sample |-> Some(y[1].y), logq |-> Some(y[1].logq),
     logp |-> Some(y[1].logp), logqp |-> Some(y[1].logq - y[1].logp)]
UpdateSamplerRef(y) ==
    [sample |-> Some(Last(y).y), logq |-> Some(Last(y).logq),
     logp |-> Some(Last(y).logp),
     logqp |-> Some(Last(y).logq - Last(y).logp)]

\* mcmc.py:235-266   MCMCHistory.bookkeeping: each given sequence is appended
BookkeepOverwrite(h, field, value) == [h EXCEPT ![field] = <<value>>]
Bookkeep(h, field, value) == [h EXCEPT ![field] = Append(@, value)]

\* mcmc.py:52-83   _accept_reject_step on the proposals batch with the draws r
accept_reject_step(batch, r, bookkeeping) ==
    LET accept_seq == calc_accept_status(LogqpOf(batch), r, ref.logqp)
        first == SubstituteFirst(batch, accept_seq, ref)
        accept_ind == calc_accept_indices(accept_seq)
        y == IndexSelect(first, accept_ind)
        h1 == Bookkeep(history, "accept_rate", Mean(accept_seq))
        h2 == IF bookkeeping
              THEN Bookkeep(Bookkeep(h1, "accept_seq", accept_seq),
                            "accept_ind", accept_ind)
              ELSE h1
    IN [y |-> y, ref |-> UpdateSamplerRef(y), history |-> h2,
        accept_seq |-> accept_seq]

LogOf(batch, field) == [i \in 1..Len(batch) |-> batch[i][field]]

\* the <<logq, logp>> raw_dist.sample_ can give a proposal, and the
\* log-uniform draws log(u) < 0
LogPairs == {<<0, 0>>, <<1, 0>>, <<0, 1>>}
LrandSmall == {-2, -1}

\* mcmc.py:28-49   sample_(batch_size, bookkeeping) with the proposals
\* <<logq, logp>> = qp and the draws r: the raw proposals are numbered in
\* the order they are drawn, which identifies each sample
SampleStep(n, bookkeeping, qp, r) ==
    LET lq == [i \in 1..n |-> qp[i][1]]
        lp == [i \in 1..n |-> qp[i][2]]
        batch == [i \in 1..n |->
                    [y |-> Len(proposals) + i, logq |-> lq[i], logp |-> lp[i]]]
        h0 == IF bookkeeping
              THEN [history EXCEPT !.raw_logq = Append(@, lq),
                                   !.raw_logp = Append(@, lp)]
              ELSE history
        step == accept_reject_step(batch, r, bookkeeping)
        hs == [step.history EXCEPT !.raw_logq = h0.raw_logq,
                                   !.raw_logp = h0.raw_logp]
        h3 == IF bookkeeping
              THEN [hs EXCEPT !.logq = Append(@, LogOf(step.y, "logq")),
                              !.logp = Append(@, LogOf(step.y, "logp"))]
              ELSE hs
    IN /\ ref' = step.ref
       /\ history' = h3
       /\ proposals' = proposals \o batch
       /\ draws' = draws \o r
       /\ calls' = Append(calls, n)
       /\ emitted' = emitted \o step.y
       /\ chain_status' = chain_status \o step.accept_seq
       /\ ref_writes' = ref_writes + 1
       /\ bookkept' = Append(bookkept, bookkeeping)

SampleCall ==
    \E n \in 1..(MaxChain - Len(proposals)), bookkeeping \in BOOLEAN :
    \E qp \in [1..n -> LogPairs], r \in [1..n -> LrandSmall] :
        /\ SampleStep(n, bookkeeping, qp, r)
        /\ UNCHANGED <<metVars, mskVars, cplVars, blkVars, extVars>>

InitSamplerSpec ==
    IdleMetropolis /\ InitSampler /\ IdleMask /\ IdleCoupling /\ IdleBlocked /\ IdleExt

NextSampler == SampleCall

SpecSampler == InitSamplerSpec /\ [][NextSampler]_vars

\* =========================================================================
\* Mask
\* =========================================================================
\* A tensor is [shape, dtype, flat]: flat holds the elements in row-major
\* order.  A mask is the flat 0/1 sequence of a uint8 tensor of shape `shape`.

RECURSIVE Prod(_)
Prod(sh) == IF sh = <<>> THEN 1 ELSE sh[1] * Prod(Tail(sh))

\* the 0-based coordinate along axis d of the element at flat position k
Coord(sh, k, d) == ((k - 1) \div Prod(SubSeq(sh, d + 1, Len(sh)))) % sh[d]

RECURSIVE SumCoord(_, _, _)
SumCoord(sh, k, d) == IF d = 0 THEN 0 ELSE Coord(sh, k, d) + SumCoord(sh, k, d - 1)

\* mask.py:70-74
evenodd(shape, parity) ==
    [k \in 1..Prod(shape) |-> (SumCoord(shape, k, Len(shape)) + parity) % 2]

\* mask.py:77-82
halfhalf(shape, parity) ==
    LET n == (1 + shape[Len(shape)]) \div 2
    IN [k \in 1..Prod(shape) |->
          IF Coord(shape, k, Len(shape)) < n THEN parity ELSE 1 - parity]

\* mask.py:50-54
get_mask(split_form, shape, parity) ==
    IF split_form = "even-odd" THEN evenodd(shape, parity)
    ELSE halfhalf(shape, parity)

\* mask.py:39-67
NewMask(shape, parity, keepshape, split_form) ==
    [shape |-> shape, keepshape |-> keepshape,
     mask |-> get_mask(split_form, shape, parity),
     cat_mask |-> IF keepshape THEN None
                  ELSE Some(get_mask(split_form, shape, parity))]

\* the mask entry the element at flat position k of a tensor [..., shape]
\* meets when the mask is broadcast over the leading axes
MaskAt(m, k) == m[((k - 1) % Len(m)) + 1]

\* mask.py:84-85   (1 - self.mask) * x, self.mask * x
sameshape_split(self, x) ==
    <<[x EXCEPT !.flat = AsTuple([k \in 1..Len(x.flat) |-> (1 - MaskAt(self.mask, k)) * x.flat[k]])],
      [x EXCEPT !.flat = AsTuple([k \in 1..Len(x.flat) |-> MaskAt(self.mask, k) * x.flat[k]])]>>

\* mask.py:87-88   x_0 + x_1
sameshape_cat(self, x_0, x_1) ==
    [x_0 EXCEPT !.flat = AsTuple([k \in 1..Len(x_0.flat) |-> x_0.flat[k] + x_1.flat[k]])]

\* the flat positions of x, in order, whose mask entry is c
Selected(m, n, c) == SelectSeq([k \in 1..n |-> k], LAMBDA k : MaskAt(m, k) = c)

\* torch.masked_select(x, mask == c).reshape(*x.shape[:-mask.dim()], -1)
MaskedSelect(self, x, c) ==
    LET pos == Selected(self.mask, Len(x.flat), c)
        lead == SubSeq(x.shape, 1, Len(x.shape) - Len(self.shape))
    IN [shape |-> Append(lead, Len(pos) \div Prod(lead)),
        dtype |-> x.dtype,
        flat |-> AsTuple([j \in 1..Len(pos) |-> x.flat[pos[j]]])]

\* mask.py:102-110
anothershape_split(self, x) == <<MaskedSelect(self, x, 0), MaskedSelect(self, x, 1)>>

\* torch's default dtype, the dtype of torch.empty(*x_shape) (mask.py:117)
DefaultDtype == "float32"

TwoTo24 == 2 ^ 24

\* the float32 nearest to the integer v (ties to even), for 0 <= v < 2^25
Float32(v) ==
    IF v <= TwoTo24 \/ v % 2 = 0 THEN v
    ELSE IF ((v - 1) \div 2) % 2 = 0 THEN v - 1 ELSE v + 1

\* a value stored into a tensor of dtype `dtype`
Stored(dtype, v) == IF dtype = "float32" THEN Float32(v) ELSE v

\* mask.py:112-120
\*   x = torch.empty(*x_shape); x[..., mask == 0] = x_0; x[..., mask == 1] = x_1
anothershape_cat(self, x_0, x_1) ==
    LET m == Val(self.cat_mask)
        lead == SubSeq(x_0.shape, 1, Len(x_0.shape) - 1)
        x_shape == lead \o self.shape
        n == Prod(x_shape)
        pos0 == Selected(m, n, 0)
        pos1 == Selected(m, n, 1)
        Rank(pos, k) == CHOOSE j \in 1..Len(pos) : pos[j] = k
    IN [shape |-> x_shape,
        dtype |-> DefaultDtype,
        flat |-> AsTuple([k \in 1..n |->
                    Stored(DefaultDtype,
                           IF MaskAt(m, k) = 0 THEN x_0.flat[Rank(pos0, k)]
                           ELSE x_1.flat[Rank(pos1, k)])])]

\* mask.py:60-67   self.split and self.cat as bound by __init__
MaskSplitOf(self, x) ==
    IF self.keepshape THEN sameshape_split(self, x) ELSE anothershape_split(self, x)

MaskCatOf(self, x_0, x_1) ==
    IF self.keepshape THEN sameshape_cat(self, x_0, x_1)
    ELSE anothershape_cat(self, x_0, x_1)

\* mask.py:118-119   an indexed assignment whose source dtype is not the
\* destination's: torch raises "Index put requires the source and destination
\* dtypes match", or (older builds) casts the source
DtypeMismatch(self, x_0) == ~self.keepshape /\ x_0.dtype # DefaultDtype

\* ---- the masks and inputs studied
MaskShapes ==
    {<<l>> : l \in 1..MaxDim} \cup {<<r, l>> : r \in 1..MaxDim, l \in 1..MaxDim}

LeadShapes == {<<>>, <<1>>, <<2>>}

\* inputs with pairwise distinct entries: the ramp 1, 2, ... from `base`
Ramp(shape, dtype, base) ==
    [shape |-> shape, dtype |-> dtype,
     flat |-> AsTuple([k \in 1..Prod(shape) |-> base + k])]

InitMask ==
    /\ \E shape \in MaskShapes, parity \in {0, 1}, keepshape \in BOOLEAN,
          split_form \in {"even-odd", "half-half"} :
          /\ mask_self = NewMask(shape, parity, keepshape, split_form)
          /\ \E lead \in LeadShapes :
                \/ \E dtype \in {"float32", "float64"} :
                      x_in = Ramp(lead \o shape, dtype, 0)
                \/ x_in = Ramp(lead \o shape, "float64", TwoTo24)
    /\ x_split = None
    /\ x_cat = None
    /\ kpc = "split_call"

\* x_0, x_1 = mask.split(x)
MaskSplit ==
    /\ kpc = "split_call"
    /\ x_split' = MaskSplitOf(mask_self, x_in)
    /\ kpc' = "cat_call"
    /\ UNCHANGED <<mask_self, x_in, x_cat, metVars, objVars, smpVars, cplVars, blkVars, extVars>>

\* mask.cat(x_0, x_1) returns
MaskCat ==
    /\ kpc = "cat_call"
    /\ x_cat' = MaskCatOf(mask_self, x_split[1], x_split[2])
    /\ kpc' = "cat_done"
    /\ UNCHANGED <<mask_self, x_in, x_split, metVars, objVars, smpVars, cplVars, blkVars, extVars>>

\* mask.cat(x_0, x_1) raises
MaskCatRaise ==
    /\ kpc = "cat_call"
    /\ DtypeMismatch(mask_self, x_split[1])
    /\ kpc' = "cat_raised"
    /\ UNCHANGED <<mask_self, x_in, x_split, x_cat, metVars, objVars, smpVars, cplVars, blkVars, extVars>>

InitMaskSpec ==
    IdleMetropolis /\ InitSampler /\ InitMask /\ IdleCoupling /\ IdleBlocked /\ IdleExt

NextMask == MaskSplit \/ MaskCat \/ MaskCatRaise

SpecMask == InitMaskSpec /\ [][NextMask]_vars

\* ------------------------------------------------------------- claim C7

CatEnded == kpc \in {"cat_done", "cat_raised"}

\* C7: for every mask shape, both parities, both patterns and both modes,
\* cat(*split(x)) returns a tensor equal to x, element for element.
C7_CatSplitIsIdentity ==
    CatEnded => /\ kpc = "cat_done"
                /\ x_cat.shape = x_in.shape
                /\ x_cat.flat = x_in.flat

\* what the code does keep: with x of the default dtype (and always in the
\* same-shape mode) the round trip is exact
C7_DefaultDtypeRoundTrip ==
    (CatEnded /\ (mask_self.keepshape \/ x_in.dtype = DefaultDtype)) =>
        /\ kpc = "cat_done"
        /\ x_cat = x_in

\* =========================================================================
\* Coupling lists
\* =========================================================================
\* Data are tensors [shape, dtype, flat] of shape [1, L] (batch size 1), and
\* [1, num_splines, L] for the multi-spline list.  Reals are fixed-point
\* numbers: the integer v stands for v / Unit, and exp and log are taken to
\* base 2, so that x * exp(-s) is exact for an integer s.  A log-Jacobian
\* and a scale s are integers in units of log 2.

Unit == 2 ^ MaxLayers

\* v * exp(e)
MulExp(v, e) == IF e >= 0 THEN v * (2 ^ e) ELSE v \div (2 ^ (-e))

\* torch.log(g) of a fixed-point g = 2^e
Log(g) == CHOOSE e \in (-MaxLayers - 1)..(MaxLayers + 1) : MulExp(Unit, e) = g

Abs(v) == IF v < 0 THEN -v ELSE v
Sgn(v) == IF v < 0 THEN -1 ELSE IF v > 0 THEN 1 ELSE 0

MapT(x, Op(_)) == [x EXCEPT !.flat = AsTuple([k \in 1..Len(x.flat) |-> Op(x.flat[k])])]
ZipT(x, y, Op(_, _)) ==
    [x EXCEPT !.flat = AsTuple([k \in 1..Len(x.flat) |-> Op(x.flat[k], y.flat[k])])]

\* Module_.sum_density: the sum over every axis but the batch axis
sum_density(x) == SumSeq(x.flat)

\* mask.py:90-100: the added mask is the real number 1 (`one` in the
\* representation of x_chnl)
sameshape_purify(self, x_chnl, channel, zero2one, one) ==
    LET keep(k) == IF channel = 0 THEN 1 - MaskAt(self.mask, k)
                   ELSE MaskAt(self.mask, k)
    IN [x_chnl EXCEPT !.flat = AsTuple([k \in 1..Len(x_chnl.flat) |->
            keep(k) * x_chnl.flat[k]
            + (IF zero2one THEN (1 - keep(k)) * one ELSE 0)])]

\* mask.py:122-123
anothershape_purify(self, x_chnl, channel, zero2one) == x_chnl

\* mask.py:62, 66   self.purify as bound by __init__
Purify(self, x_chnl, channel, zero2one, one) ==
    IF self.keepshape THEN sameshape_purify(self, x_chnl, channel, zero2one, one)
    ELSE anothershape_purify(self, x_chnl, channel, zero2one)

\* ---- the parametric functions (external): net(x_frozen) gives `width`
\* channels of the shape of the active partition (`like`); every entry is a
\* function of all of the frozen input.
NetKinds == {"sum", "neg"}

NetValue(net, x_frozen) ==
    IF net = "sum" THEN SumSeq(x_frozen.flat) ELSE Unit - SumSeq(x_frozen.flat)

\* a channel of reals (a shift t)
NetReal(net, x_frozen, like) ==
    [like EXCEPT !.flat = AsTuple([k \in 1..Len(like.flat) |-> NetValue(net, x_frozen)])]

\* a channel of small integers (a scale s, a raw knot derivative); channel c
NetInt(net, x_frozen, like, c) ==
    [like EXCEPT !.flat = AsTuple([k \in 1..Len(like.flat) |->
        IF c % 2 = 1 THEN Sgn(NetValue(net, x_frozen))
        ELSE -Sgn(NetValue(net, x_frozen) - Unit)])]

\* ---- couplings_v2_.py:183-189   ShiftList_
Shift_atomic_forward(self, x_active, x_frozen, parity, net, log0) ==
    LET t == NetReal(net, x_frozen, x_active)
    IN [x |-> Purify(self.mask, ZipT(x_active, t, LAMBDA a, b : a + b), parity, FALSE, Unit),
        log0 |-> log0]

Shift_atomic_backward(self, x_active, x_frozen, parity, net, log0) ==
    LET t == NetReal(net, x_frozen, x_active)
    IN [x |-> Purify(self.mask, ZipT(x_active, t, LAMBDA a, b : a - b), parity, FALSE, Unit),
        log0 |-> log0]

\* ---- couplings_v2_.py:196-214   AffineList_
AffineScale(self, x_active, x_frozen, parity, net) ==
    LET s == Purify(self.mask, NetInt(net, x_frozen, x_active, 1), parity, FALSE, 1)
    IN IF self.zee2sym THEN MapT(s, Abs) ELSE s

Affine_atomic_forward(self, x_active, x_frozen, parity, net, log0) ==
    LET t == Purify(self.mask, NetReal(net, x_frozen, x_active), parity, FALSE, Unit)
        s == AffineScale(self, x_active, x_frozen, parity, net)
    IN [x |-> ZipT(t, ZipT(x_active, s, LAMBDA a, e : MulExp(a, -e)),
                   LAMBDA a, b : a + b),
        log0 |-> log0 - sum_density(s)]

Affine_atomic_backward(self, x_active, x_frozen, parity, net, log0) ==
    LET t == Purify(self.mask, NetReal(net, x_frozen, x_active), parity, FALSE, Unit)
        s == AffineScale(self, x_active, x_frozen, parity, net)
    IN [x |-> ZipT(ZipT(x_active, t, LAMBDA a, b : a - b), s,
                   LAMBDA a, e : MulExp(a, e)),
        log0 |-> log0 + sum_density(s)]

\* ---- lib.spline.RQSpline (external) with the two knots (0, 0) and
\* (hi, hi), the knot derivatives d0, d1 and linear extrapolation, at and
\* outside its knots; the inputs studied never lie strictly between them.
\* couplings_v2_.py:317   to_deriv: the positive map softplus, with
\* to_deriv(0) = 1; modelled by 2^d so that the derivatives stay dyadic
to_deriv(d) == MulExp(Unit, d)

SplineForward(hi, d0, d1, x) ==
    IF x <= 0 THEN [y |-> MulExp(x, Log(d0)), g |-> d0]
    ELSE IF x >= hi THEN [y |-> hi + MulExp(x - hi, Log(d1)), g |-> d1]
    ELSE [y |-> x, g |-> Unit]

SplineBackward(hi, d0, d1, y) ==
    IF y <= 0 THEN [y |-> MulExp(y, -Log(d0)), g |-> MulExp(Unit, -Log(d0))]
    ELSE IF y >= hi THEN [y |-> hi + MulExp(y - hi, -Log(d1)),
                          g |-> MulExp(Unit, -Log(d1))]
    ELSE [y |-> y, g |-> Unit]

\* the sub-channel (1-based) of flat position k of a tensor [1, C, L]
SubChannel(x, k) ==
    IF Len(x.shape) = 3 THEN ((k - 1) \div x.shape[3]) + 1 ELSE 1

\* couplings_v2_.py:291-342 and 433-498   make_spline with knots_x and
\* knots_y fixed: the upper knot of the spline of sub-channel c
KnotHi(c) == c * Unit

\* couplings_v2_.py:253-279 (RQSplineList_) and 396-420, 500-508
\* (MultiRQSplineList_): the splines applied element by element, sub-channel
\* by sub-channel
SplineAtomic(self, x_active, x_frozen, parity, net, log0, backward) ==
    LET raw0 == NetInt(net, x_frozen, x_active, 1)
        raw1 == NetInt(net, x_frozen, x_active, 2)
        out0 == IF self.zee2sym THEN MapT(raw0, Abs) ELSE raw0
        out1 == IF self.zee2sym THEN MapT(raw1, Abs) ELSE raw1
        Spline(hi, d0, d1, v) == IF backward THEN SplineBackward(hi, d0, d1, v)
                                 ELSE SplineForward(hi, d0, d1, v)
        at(k) == Spline(KnotHi(SubChannel(x_active, k)), to_deriv(out0.flat[k]),
                        to_deriv(out1.flat[k]), x_active.flat[k])
        fx == [x_active EXCEPT !.flat = AsTuple([k \in 1..Len(x_active.flat) |-> at(k).y])]
        g0 == [x_active EXCEPT !.flat = AsTuple([k \in 1..Len(x_active.flat) |-> at(k).g])]
        g == Purify(self.mask, g0, parity, TRUE, Unit)
    IN [x |-> Purify(self.mask, fx, parity, FALSE, Unit),
        log0 |-> log0 + sum_density(MapT(g, Log))]

RQSpline_atomic_forward(self, x_active, x_frozen, parity, net, log0) ==
    SplineAtomic(self, x_active, x_frozen, parity, net, log0, FALSE)

RQSpline_atomic_backward(self, x_active, x_frozen, parity, net, log0) ==
    SplineAtomic(self, x_active, x_frozen, parity, net, log0, TRUE)

\* the atomic_forward / atomic_backward of the engine's class
atomic_forward(self, x_active, x_frozen, parity, net, log0) ==
    CASE self.cls = "ShiftList_" ->
            Shift_atomic_forward(self, x_active, x_frozen, parity, net, log0)
      [] self.cls = "AffineList_" ->
            Affine_atomic_forward(self, x_active, x_frozen, parity, net, log0)
      [] OTHER ->
            RQSpline_atomic_forward(self, x_active, x_frozen, parity, net, log0)

atomic_backward(self, x_active, x_frozen, parity, net, log0) ==
    CASE self.cls = "ShiftList_" ->
            Shift_atomic_backward(self, x_active, x_frozen, parity, net, log0)
      [] self.cls = "AffineList_" ->
            Affine_atomic_backward(self, x_active, x_frozen, parity, net, log0)
      [] OTHER ->
            RQSpline_atomic_backward(self, x_active, x_frozen, parity, net, log0)

\* couplings_v2_.py:63   enumerate(self.nets): the layers 0 .. N-1
ForwardLayers(n) == [j \in 1..n |-> j - 1]

\* couplings_v2_.py:76   list(range(len(self.nets)))[::-1]
BackwardLayersUnreversed(n) == [j \in 1..n |-> j - 1]
BackwardLayers(n) == [j \in 1..n |-> n - j]

\* couplings_v2_.py:64, 77   parity = k % 2
LayerParity(k) == k % 2

\* couplings_v2_.py:66 (x_frozen=x[1 - parity]) and 122, 138 (x_frozen =
\* control if k == 0 else x[1 - parity]): where the frozen input of layer k
\* comes from, the control or a channel of x
FrozenInputAllControl(control, k, parity) ==
    IF control # None THEN <<"control">> ELSE <<"x", 1 - parity>>
FrozenInput(control, k, parity) ==
    IF control # None /\ k = 0 THEN <<"control">> ELSE <<"x", 1 - parity>>

\* couplings_v2_.py:63-71, 76-84 (CouplingList_) and 121-130, 137-146
\* (DirectCntrCouplingList_: control is Some(array), the frozen input of
\* layer 0): the layers order[j], order[j+1], ... applied to x = [x_0, x_1]
\* fed is, layer by layer, where the frozen input came from
RECURSIVE LayerLoop(_, _, _, _, _, _, _, _, _)
LayerLoop(self, order, j, x, log0, control, direction, visited, fed) ==
    IF j > Len(order)
    THEN [x |-> x, log0 |-> log0, visited |-> visited, fed |-> fed]
    ELSE LET k == order[j]
             parity == LayerParity(k)
             from == FrozenInput(control, k, parity)
             x_frozen == IF from[1] = "control" THEN Val(control)
                         ELSE x[from[2] + 1]
             r == IF direction = "forward"
                  THEN atomic_forward(self, x[parity + 1], x_frozen, parity,
                                      self.nets[k + 1], log0)
                  ELSE atomic_backward(self, x[parity + 1], x_frozen, parity,
                                       self.nets[k + 1], log0)
         IN LayerLoop(self, order, j + 1, [x EXCEPT ![parity + 1] = r.x],
                      r.log0, control, direction,
                      Append(visited, [layer |-> k, channel |-> parity]),
                      Append(fed, from))

\* couplings_v2_.py:61-72 and 118-132
CouplingForward(self, x, control, log0) ==
    LET r == LayerLoop(self, ForwardLayers(Len(self.nets)), 1,
                       MaskSplitOf(self.mask, x), log0, control, "forward", <<>>,
                       <<>>)
    IN [x |-> MaskCatOf(self.mask, r.x[1], r.x[2]), control |-> control,
        log0 |-> r.log0, visited |-> r.visited, fed |-> r.fed]

\* couplings_v2_.py:74-85 and 134-148
CouplingBackward(self, x, control, log0) ==
    LET r == LayerLoop(self, BackwardLayers(Len(self.nets)), 1,
                       MaskSplitOf(self.mask, x), log0, control, "backward", <<>>,
                       <<>>)
    IN [x |-> MaskCatOf(self.mask, r.x[1], r.x[2]), control |-> control,
        log0 |-> r.log0, visited |-> r.visited, fed |-> r.fed]

\* ---- the engines and inputs studied
CouplingClasses == {"ShiftList_", "AffineList_", "RQSplineList_", "MultiRQSplineList_"}

\* "none": the class itself; "direct": with DirectCntrCouplingList_'s
\* forward and backward; "generated": CntrShiftList_, CntrAffineList_,
\* CntrRQSplineList_, CntrMultiRQSplineList_
ControlVariants == {"none", "direct", "generated"}

CplShape == <<2>>
XVals == {-Unit, 0, 2 * Unit}

\* the entries of the inputs of an engine of class cls
XValsOf(cls) == IF cls = "MultiRQSplineList_" THEN XVals \ {0} ELSE XVals

\* the shape of the data of an engine of class cls: [1, L], or [1, 2, L]
\* with the two sub-channels of the multi-spline list
DataShape(cls) ==
    (IF cls = "MultiRQSplineList_" THEN <<1, 2>> ELSE <<1>>) \o CplShape

Tensors(shape, vals) ==
    {[shape |-> shape, dtype |-> DefaultDtype, flat |-> f] :
        f \in [1..Prod(shape) -> vals]}

\* a control array: the frozen input of layer 0, constant over its entries
Controls(self, x) ==
    LET like == MaskSplitOf(self.mask, x)[2]
    IN {[like EXCEPT !.flat = [k \in 1..Len(like.flat) |-> c]] : c \in {-Unit, Unit}}

InitCoupling ==
    /\ \E cls \in CouplingClasses, cntr \in ControlVariants,
          nets \in SeqsUpTo(NetKinds, MaxLayers), parity \in {0, 1},
          keepshape \in BOOLEAN, zee2sym \in BOOLEAN :
          /\ cpl_self = [cls |-> cls, cntr |-> cntr, nets |-> nets,
                         mask |-> NewMask(CplShape, parity, keepshape, "even-odd"),
                         zee2sym |-> zee2sym, control |-> None]
          /\ \E x \in Tensors(DataShape(cls), XValsOf(cls)) :
                \/ /\ cntr # "direct"
                   /\ cpl_x = [x |-> x, control |-> None]
                \/ /\ cntr = "direct"
                   /\ \E c \in Controls(cpl_self, x) :
                         cpl_x = [x |-> x, control |-> Some(c)]
    /\ cpl_fwd = None
    /\ cpl_bwd = None
    /\ cpc = "new"
    /\ cpl_gen = [controls |-> <<>>, paired |-> 0]

\* forward(x, 0) of CouplingList_ (61-72), forward((x, control), 0) of
\* DirectCntrCouplingList_ (118-132)
CplForward ==
    /\ cpc = "new"
    /\ cpl_self.cntr # "generated"
    /\ cpl_fwd' = CouplingForward(cpl_self, cpl_x.x, cpl_x.control, 0)
    /\ cpc' = "forwarded"
    /\ UNCHANGED <<cpl_self, cpl_x, cpl_bwd, cpl_gen>>
    /\ UNCHANGED <<metVars, objVars, smpVars, mskVars, blkVars, extVars>>

\* forward(x, 0) of CntrCouplingList_ (168-172): a control is generated,
\* kept in self.control and not returned
CplCntrForward ==
    /\ cpc = "new"
    /\ cpl_self.cntr = "generated"
    /\ \E c \in Controls(cpl_self, cpl_x.x) :
          /\ cpl_self' = [cpl_self EXCEPT !.control = Some(c)]
          /\ cpl_fwd' = [CouplingForward(cpl_self, cpl_x.x, Some(c), 0)
                            EXCEPT !.control = None]
          /\ cpl_gen' = [controls |-> Append(cpl_gen.controls, c),
                          paired |-> Len(cpl_gen.controls) + 1]
    /\ cpc' = "forwarded"
    /\ UNCHANGED <<cpl_x, cpl_bwd>>
    /\ UNCHANGED <<metVars, objVars, smpVars, mskVars, blkVars, extVars>>

\* backward applied to what forward returned: CouplingList_ (74-85),
\* DirectCntrCouplingList_ (134-148)
CplBackward ==
    /\ cpc = "forwarded"
    /\ cpl_self.cntr # "generated"
    /\ cpl_bwd' = CouplingBackward(cpl_self, cpl_fwd.x, cpl_fwd.control, 0)
    /\ cpc' = "inverted"
    /\ UNCHANGED <<cpl_self, cpl_x, cpl_fwd, cpl_gen>>
    /\ UNCHANGED <<metVars, objVars, smpVars, mskVars, blkVars, extVars>>

\* backward of CntrCouplingList_ (174-176), with self.control
CplCntrBackward ==
    /\ cpc = "forwarded"
    /\ cpl_self.cntr = "generated"
    /\ cpl_bwd' = [CouplingBackward(cpl_self, cpl_fwd.x, cpl_self.control, 0)
                      EXCEPT !.control = None]
    /\ cpc' = "inverted"
    /\ UNCHANGED <<cpl_self, cpl_x, cpl_fwd, cpl_gen>>
    /\ UNCHANGED <<metVars, objVars, smpVars, mskVars, blkVars, extVars>>

InitCouplingSpec ==
    IdleMetropolis /\ InitSampler /\ IdleMask /\ InitCoupling /\ IdleBlocked /\ IdleExt

NextCoupling == CplForward \/ CplCntrForward \/ CplBackward \/ CplCntrBackward

SpecCoupling == InitCouplingSpec /\ [][NextCoupling]_vars

\* ------------------------------------------------------------- claim C6

MaxForwards == 2

\* couplings_v2_.py:168-172   a further forward(x, 0) on the same instance:
\* self.control is replaced; the caller keeps the output of the earlier
\* forward (keep) or takes the new one
CntrForwardAgain ==
    /\ cpc = "forwarded"
    /\ cpl_self.cntr = "generated"
    /\ Len(cpl_gen.controls) < MaxForwards
    /\ \E c \in Controls(cpl_self, cpl_x.x), keep \in BOOLEAN :
          /\ cpl_self' = [cpl_self EXCEPT !.control = Some(c)]
          /\ cpl_fwd' = IF keep THEN cpl_fwd
                        ELSE [CouplingForward(cpl_self, cpl_x.x, Some(c), 0)
                                 EXCEPT !.control = None]
          /\ cpl_gen' = [controls |-> Append(cpl_gen.controls, c),
                         paired |-> IF keep THEN cpl_gen.paired
                                    ELSE Len(cpl_gen.controls) + 1]
    /\ UNCHANGED <<cpl_x, cpl_bwd, cpc>>
    /\ UNCHANGED <<metVars, objVars, smpVars, mskVars, blkVars, extVars>>

\* couplings_v2_.py:174-176, 134-148, 95-96   backward(x) before any forward,
\* with layers: self.control is None, the layers N-1 .. 1 are applied, and
\* at layer 0 preprocess_fz(None) raises (None has no unsqueeze)
CntrBackwardRaise ==
    /\ cpc = "new"
    /\ cpl_self.cntr = "generated"
    /\ Len(cpl_self.nets) > 0
    /\ cpc' = "AttributeError"
    /\ UNCHANGED <<cpl_self, cpl_x, cpl_fwd, cpl_bwd, cpl_gen>>
    /\ UNCHANGED <<metVars, objVars, smpVars, mskVars, blkVars, extVars>>

\* couplings_v2_.py:174-176, 134-148   backward(x) before any forward,
\* without layers: the loop body never runs and mask.cat(*mask.split(x))
\* is returned
CntrBackwardNoLayers ==
    /\ cpc = "new"
    /\ cpl_self.cntr = "generated"
    /\ Len(cpl_self.nets) = 0
    /\ cpl_bwd' = [CouplingBackward(cpl_self, cpl_x.x, None, 0)
                      EXCEPT !.control = None]
    /\ cpc' = "returned_unforwarded"
    /\ UNCHANGED <<cpl_self, cpl_x, cpl_fwd, cpl_gen>>
    /\ UNCHANGED <<metVars, objVars, smpVars, mskVars, blkVars, extVars>>

InitCntrSpec == InitCouplingSpec /\ cpl_self.cntr = "generated"

NextCntr ==
    \/ CplCntrForward \/ CntrForwardAgain \/ CplCntrBackward
    \/ CntrBackwardRaise \/ CntrBackwardNoLayers

SpecCntr == InitCntrSpec /\ [][NextCntr]_vars

\* ------------------------------------------------------------ claim C11

\* C11: a backward before any forward on the instance raises and returns
\* nothing, and a backward uses the control that was generated by the
\* forward whose output it is given.
C11_BackwardUsesItsForwardsControl ==
    /\ cpc # "returned_unforwarded"
    /\ cpc = "inverted" =>
          cpl_self.control = Some(cpl_gen.controls[cpl_gen.paired])

\* what the code keeps: backward uses the control of the latest forward
C11_BackwardUsesLatestControl ==
    cpc = "inverted" => cpl_self.control = Some(Last(cpl_gen.controls))

\* a backward given the output of the first forward after a second forward
\* generated another control: it does not return the first forward's input
C11_StaleControl ==
    /\ cpc = "inverted"
    /\ Len(cpl_gen.controls) = 2 /\ cpl_gen.paired = 1
    /\ cpl_gen.controls[1] # cpl_gen.controls[2]
    /\ cpl_bwd.x # cpl_x.x

\* ------------------------------------------------------- claims C4, C5

\* a single chain run over the whole proposal sequence, no reference given
WholeStatus == calc_accept_status(LogqpOf(proposals), draws, None)
WholeChain == IndexSelect(proposals, calc_accept_indices(WholeStatus))

\* the position in the whole chain of the first proposal of call k
StartOf(k) == 1 + SumSeq(SubSeq(calls, 1, k - 1))

\* C4: however the proposals are cut into sample_ calls, the concatenation
\* of the returned batches is the output of one chain run over the whole
\* proposal sequence (each element the last proposal accepted at or before
\* its position), with the same decisions; and the first proposal of every
\* call after the first is decided against the logq - logp of the last
\* element the previous call returned.
C4_OneContinuousChain ==
    calls # <<>> =>
        /\ emitted = WholeChain
        /\ chain_status = WholeStatus
        /\ \A k \in 2..Len(calls) :
              LET p == StartOf(k)
              IN chain_status[p] <=>
                    (draws[p] < (emitted[p - 1].logq - emitted[p - 1].logp)
                                - (proposals[p].logq - proposals[p].logp))

\* a second call whose first proposal is rejected and whose second is accepted
C4_Witness ==
    /\ Len(calls) = 2 /\ calls[1] = 1 /\ calls[2] = 2
    /\ ~chain_status[2] /\ chain_status[3]
    /\ emitted[2].y = 1 /\ emitted[3].y = 3

\* C5: after every sample_ call _ref holds the sample, logq and logp of the
\* last element of the batch just returned, _ref['logqp'] is that element's
\* logq - logp, and _ref has been written once per call.
C5_RefIsLastEmitted ==
    calls # <<>> =>
        /\ ref.sample = Some(Last(emitted).y)
        /\ ref.logq = Some(Last(emitted).logq)
        /\ ref.logp = Some(Last(emitted).logp)
        /\ ref.logqp = Some(Last(emitted).logq - Last(emitted).logp)
        /\ ref_writes = Len(calls)

\* a call of two proposals whose last is rejected: the reference is the
\* first proposal, not the last one drawn
C5_Witness ==
    /\ calls = <<2>>
    /\ chain_status = <<TRUE, FALSE>>
    /\ ref.sample = Some(1)
    /\ proposals[2].logq - proposals[2].logp # Val(ref.logqp)

\* =========================================================================
\* BlockedMCMCSampler
\* =========================================================================
\* A configuration is the tuple of the prior's nvar variables, each 0 or 1
\* (one configuration: the batch axis of x and y has size 1).  The prior,
\* the flow net_ and the action are given to the sampler by its model.

MaxCalls == 2
MaxSweeps == 2

NvarVals == {2, 4}
VarVals == {0, 1}

\* the configurations prior.sample(1) draws: those of the form 0..0 1..1
Configs(n) == {AsTuple([k \in 1..n |-> IF k <= z THEN 0 ELSE 1]) : z \in 0..n}

RECURSIVE Ravel(_)
Ravel(m) == IF m = <<>> THEN <<>> ELSE m[1] \o Ravel(Tail(m))

\* ---- the model's net_, prior.log_prob and action (external)
\* net_(x): the configuration y and the log-Jacobian logJ
net_forward(x) == [y |-> AsTuple([k \in 1..Len(x) |-> 1 - x[k]]), logJ |-> x[1]]

\* net_.backward(y)[0]
net_backward(y) == AsTuple([k \in 1..Len(y) |-> 1 - y[k]])

prior_log_prob(x) == SumSeq(x)

action(y) == 2 * y[1]

\* mcmc.py:156-158 and 186-188   y, logJ = net_(x);
\* logq = prior.log_prob(x) - logJ;  logp = -action(y)
Evaluate(x) ==
    LET f == net_forward(x)
    IN [y |-> f.y, logq |-> prior_log_prob(x) - f.logJ, logp |-> -action(f.y)]

\* ---- the prior's block protocol (external): block ind of x is the
\* variables ind * block_len + 1 .. (ind + 1) * block_len
BlockOf(x, block_len, ind) == SubSeq(x, ind * block_len + 1, (ind + 1) * block_len)

SetBlock(x, block_len, ind, c) ==
    AsTuple([k \in 1..Len(x) |->
                IF ind * block_len < k /\ k <= (ind + 1) * block_len
                THEN c[k - ind * block_len] ELSE x[k]])

\* prior.setup_blockupdater(block_len): a new updater, nothing to undo
setup_blockupdater(p, block_len) ==
    [p EXCEPT !.blockupdater =
        Some([block_len |-> block_len, saved |-> <<>>])]

\* prior.blockupdater(x, ind): block ind of x is overwritten in place by the
\* content c it draws, and the content it replaces is kept for restore
\* (saved: block index -> the content its last update replaced)
blockupdater(p, x, ind, c) ==
    LET bu == Val(p.blockupdater)
        saved == [i \in (DOMAIN bu.saved) \cup {ind} |->
                    IF i = ind THEN BlockOf(x, bu.block_len, ind)
                    ELSE bu.saved[i]]
    IN [x |-> SetBlock(x, bu.block_len, ind, c),
        prior |-> [p EXCEPT !.blockupdater = Some([bu EXCEPT !.saved = saved])]]

\* prior.blockupdater.restore(x, ind): undoes the last update of block ind
restore(p, x, ind) ==
    LET bu == Val(p.blockupdater)
    IN SetBlock(x, bu.block_len, ind, bu.saved[ind])

\* the contents blockupdater draws for a block
BlockDraws(block_len) == {AsTuple([k \in 1..block_len |-> v]) : v \in VarVals}

\* ---- mcmc.py:124-199
\* mcmc.py:131-134   the try block raises when _ref['sample'] is None
ColdStart(r) == r.sample = None

\* mcmc.py:132, 136   x = net_.backward(_ref['sample'])[0], or prior.sample(1)
StartConfigsFresh(r, p) == Configs(p.nvar)
StartConfigs(r, p) ==
    IF ColdStart(r) THEN Configs(p.nvar) ELSE {net_backward(Val(r.sample))}

\* mcmc.py:133, 137
StartRefBlocked(r) == IF ColdStart(r) THEN None ELSE r.logqp

\* mcmc.py:140   isinstance(n_blocks, int): an n_blocks that is not an int
\* is None here
IsInt(n_blocks) == n_blocks # None

\* mcmc.py:141, 144
BlockLen(nvar, n_blocks) ==
    IF IsInt(n_blocks) THEN nvar \div Val(n_blocks) ELSE nvar

\* mcmc.py:145
NBlocks(n_blocks) == IF IsInt(n_blocks) THEN Val(n_blocks) ELSE 1

\* mcmc.py:142   assert block_len * n_blocks == nvar
BlockLenAny(block_len, n_blocks, nvar) == TRUE
BlockLenOk(block_len, n_blocks, nvar) == block_len * n_blocks = nvar

\* mcmc.py:140-142   how the block length fails: nvar // 0, the assertion
BlockLenError(nvar, n_blocks) ==
    IF ~IsInt(n_blocks) THEN "none"
    ELSE IF Val(n_blocks) = 0 THEN "ZeroDivisionError"
    ELSE IF ~BlockLenOk(BlockLen(nvar, n_blocks), Val(n_blocks), nvar)
         THEN "AssertionError"
    ELSE "none"

\* mcmc.py:190   if ind == 0 and logqp_ref is None
UnconditionalFirstBlock(ind, ref0) == ind = 0
Unconditional(ind, ref0) == ind = 0 /\ ref0 = None

\* mcmc.py:193   lrand_arr[ind] < logqp_ref - (logq - logp)[0]
BlockAccept(lrand, cur, lq) == lrand < cur - lq

\* mcmc.py:196-197   else: prior.blockupdater.restore(x, ind)
OnRejectKeep(p, x, ind) == x
OnReject(p, x, ind) == restore(p, x, ind)

\* mcmc.py:194-197   the restore calls that follow the decision on block ind
RestoreCallsAlways(accept, ind) == <<<<"restore", ind>>>>
RestoreCalls(accept, ind) == IF accept THEN <<>> ELSE <<<<"restore", ind>>>>

\* mcmc.py:185-197   one pass of the loop of sweep, for block ind; ops are
\* the calls on the prior and the decision, in the order they are made
sweep_block(p, x, ind, ref0, c, lrand) ==
    LET up == blockupdater(p, x, ind, c)
        e == Evaluate(up.x)
        lqp == e.logq - e.logp
        uncond == Unconditional(ind, ref0)
        accept == IF uncond THEN TRUE ELSE BlockAccept(lrand, Val(ref0), lqp)
        undo == RestoreCalls(accept, ind)
    IN [x |-> IF undo = <<>> THEN up.x ELSE OnReject(up.prior, up.x, undo[1][2]),
        prior |-> up.prior,
        logqp_ref |-> IF accept THEN Some(lqp) ELSE ref0,
        accept |-> accept, uncond |-> uncond, logqp |-> lqp, updated |-> up.x,
        ops |-> <<<<"blockupdater", ind>>, <<"decide", ind, accept>>>> \o undo]

\* the n_blocks a caller passes: an int, or something that is not an int
NBlocksArgs == {None} \cup {Some(n) : n \in 0..3}

\* mcmc.py:18-21 and a prior of nvar variables with no block updater yet
InitBlocked ==
    /\ \E n \in NvarVals : prior = [nvar |-> n, blockupdater |-> None]
    /\ bx = None
    /\ bref = None
    /\ bcall = None
    /\ bpc = "idle"
    /\ bres = "none"
    /\ blast = None
    /\ bnum = [calls |-> 0, sweeps |-> 0]

\* the arguments and locals of a sample_ call on entry; log is the record
\* of what the call did, sweep by sweep: the calls of prior.blockupdater and
\* of its restore, the decisions, and the net_(x) of lines 156-159
CallEntry(batch_size, n_blocks, bookkeeping) ==
    [batch_size |-> batch_size, n_blocks |-> n_blocks, bookkeeping |-> bookkeeping,
     nb |-> NBlocks(n_blocks), cold |-> ColdStart(ref),
     x_from |-> IF ColdStart(ref) THEN "prior.sample" ELSE "net_.backward",
     ind |-> 0, blk |-> 0, row |-> <<>>, accept_seq |-> <<>>,
     logq |-> <<>>, logp |-> <<>>, cfgs |-> <<>>, y |-> None, steps |-> 0,
     log |-> <<>>,
     ref0 |-> ref, history0 |-> history, prior0 |-> prior]

\* mcmc.py:124-152   sample_(batch_size, n_blocks, bookkeeping) up to the
\* loop over the batch: the start configuration and reference, the block
\* length, prior.setup_blockupdater
BSampleStart ==
    /\ bpc = "idle"
    /\ bnum.calls < MaxCalls
    /\ \E batch_size \in 0..(MaxSweeps - bnum.sweeps), n_blocks \in NBlocksArgs,
          bookkeeping \in BOOLEAN :
          /\ BlockLenError(prior.nvar, n_blocks) = "none"
          /\ bx' \in StartConfigs(ref, prior)
          /\ bref' = StartRefBlocked(ref)
          /\ prior' = setup_blockupdater(prior, BlockLen(prior.nvar, n_blocks))
          /\ bcall' = CallEntry(batch_size, n_blocks, bookkeeping)
          /\ bpc' = IF batch_size = 0 THEN "finish" ELSE "sweep"
    /\ bres' = "none"
    /\ blast' = None
    /\ bnum' = [bnum EXCEPT !.calls = @ + 1]
    /\ UNCHANGED <<metVars, objVars, smpVars, mskVars, cplVars, extVars>>

\* mcmc.py:131-142   sample_ raises at the block length: nvar // 0, or the
\* assertion; x and logqp_ref, locals, are lost
BSampleFail ==
    /\ bpc = "idle"
    /\ bnum.calls < MaxCalls
    /\ \E batch_size \in 0..(MaxSweeps - bnum.sweeps), n_blocks \in NBlocksArgs,
          bookkeeping \in BOOLEAN :
          /\ BlockLenError(prior.nvar, n_blocks) # "none"
          /\ bres' = BlockLenError(prior.nvar, n_blocks)
          /\ bcall' = CallEntry(batch_size, n_blocks, bookkeeping)
    /\ blast' = None
    /\ bnum' = [bnum EXCEPT !.calls = @ + 1]
    /\ UNCHANGED <<prior, bx, bref, bpc>>
    /\ UNCHANGED <<metVars, objVars, smpVars, mskVars, cplVars, extVars>>

\* mcmc.py:184-197   one block update of sweep (the log-uniform draw of
\* line 182 for this block is drawn here), and after the last block of a
\* sweep lines 155-159: the row of decisions, logq, logp and y are stored
BBlockUpdate ==
    /\ bpc = "sweep"
    /\ \E c \in BlockDraws(Val(prior.blockupdater).block_len), lrand \in LrandSmall :
          LET s == sweep_block(prior, bx, bcall.blk, bref, c, lrand)
              row == Append(bcall.row, s.accept)
              ends == bcall.blk + 1 = bcall.nb
              e == Evaluate(s.x)
              ops == [k \in 1..Len(s.ops) |-> [sweep |-> bcall.ind, op |-> s.ops[k]]]
              out == <<[sweep |-> bcall.ind, op |-> <<"net_", s.x>>]>>
          IN /\ bx' = s.x
             /\ prior' = s.prior
             /\ bref' = s.logqp_ref
             /\ blast' = Some([sweep |-> bcall.ind, block |-> bcall.blk,
                               uncond |-> s.uncond, accept |-> s.accept,
                               lrand |-> lrand, ref_before |-> bref,
                               logqp |-> s.logqp, x_before |-> bx,
                               x_updated |-> s.updated])
             /\ bcall' = IF ends
                         THEN [bcall EXCEPT !.ind = @ + 1, !.blk = 0, !.row = <<>>,
                                            !.accept_seq = Append(@, row),
                                            !.logq = Append(@, e.logq),
                                            !.logp = Append(@, e.logp),
                                            !.cfgs = Append(@, e.y),
                                            !.y = Some(e.y), !.steps = @ + 1,
                                            !.log = @ \o ops \o out]
                         ELSE [bcall EXCEPT !.blk = @ + 1, !.row = row,
                                            !.steps = @ + 1,
                                            !.log = @ \o ops]
             /\ bpc' = IF ends /\ bcall.ind + 1 = bcall.batch_size
                       THEN "finish" ELSE "sweep"
             /\ bnum' = IF ends THEN [bnum EXCEPT !.sweeps = @ + 1] ELSE bnum
    /\ UNCHANGED bres
    /\ UNCHANGED <<metVars, objVars, smpVars, mskVars, cplVars, extVars>>

\* mcmc.py:162-172   _ref and the history are written, sample_ returns
BSampleFinish ==
    /\ bpc = "finish"
    /\ bcall.y # None
    /\ ref' = [sample |-> Some(Val(bcall.y)),
               logq |-> Some(Last(bcall.logq)),
               logp |-> Some(Last(bcall.logp)),
               logqp |-> Some(Last(bcall.logq) - Last(bcall.logp))]
    /\ LET h1 == Bookkeep(history, "accept_rate", Mean(Ravel(bcall.accept_seq)))
       IN history' = IF bcall.bookkeeping
                     THEN Bookkeep(Bookkeep(Bookkeep(h1, "logq", bcall.logq),
                                            "logp", bcall.logp),
                                   "accept_seq", Ravel(bcall.accept_seq))
                     ELSE h1
    /\ bpc' = "idle"
    /\ bres' = "returned"
    /\ bx' = None
    /\ bref' = None
    /\ UNCHANGED <<prior, bcall, blast, bnum>>
    /\ UNCHANGED <<metVars, smpVars, mskVars, cplVars, extVars>>

\* mcmc.py:154, 162   batch_size = 0: the loop body never runs and y[-1]
\* reads a local that was never bound
BSampleUnbound ==
    /\ bpc = "finish"
    /\ bcall.y = None
    /\ bpc' = "idle"
    /\ bres' = "UnboundLocalError"
    /\ bx' = None
    /\ bref' = None
    /\ UNCHANGED <<prior, bcall, blast, bnum>>
    /\ UNCHANGED <<metVars, objVars, smpVars, mskVars, cplVars, extVars>>

InitBlockedSpec ==
    IdleMetropolis /\ InitSampler /\ IdleMask /\ IdleCoupling /\ InitBlocked /\ IdleExt

NextBlocked ==
    BSampleStart \/ BSampleFail \/ BBlockUpdate \/ BSampleFinish \/ BSampleUnbound

SpecBlocked == InitBlockedSpec /\ [][NextBlocked]_vars

\* ------------------------------------------------------ claims C8 .. C10

\* a block update of sweep has just been made in the call under way
BlockStepMade == bpc # "idle" /\ blast # None

\* C8: after a rejected block update the configuration x is what it was
\* immediately before that block's update, block by block (the rejected
\* block included), and the carried reference log-ratio is unchanged.
C8_RejectRestores ==
    (BlockStepMade /\ ~Val(blast).accept) =>
        LET b == Val(blast)
            block_len == Val(prior.blockupdater).block_len
        IN /\ bx = b.x_before
           /\ \A i \in 0..(bcall.nb - 1) :
                 BlockOf(bx, block_len, i) = BlockOf(b.x_before, block_len, i)
           /\ bref = b.ref_before

\* a rejected update of a later block that had changed the block
C8_Witness ==
    /\ BlockStepMade
    /\ ~Val(blast).accept
    /\ Val(blast).block > 0
    /\ Val(blast).x_updated # Val(blast).x_before
    /\ Val(prior.blockupdater).block_len > 1

\* C9: a call that finds no reference sample starts from a prior draw with
\* the reference unset, and accepts the first block of its first sweep
\* whatever the draw and the log-ratio; every other block decision, in that
\* call and in calls that find a reference sample, is the Metropolis test
\* lrand < ref - logqp against a defined reference.
C9_FirstBlockUnconditional ==
    /\ bnum.calls > 0 =>
          /\ bcall.cold <=> bcall.ref0.sample = None
          /\ bcall.cold <=> bcall.x_from = "prior.sample"
    /\ (bpc = "sweep" /\ bcall.steps = 0) =>
          (bcall.cold <=> bref = None)
    /\ BlockStepMade =>
          LET b == Val(blast)
              first == bcall.cold /\ b.sweep = 0 /\ b.block = 0
          IN /\ first => (b.uncond /\ b.accept /\ b.ref_before = None)
             /\ ~first => /\ ~b.uncond
                          /\ b.ref_before # None
                          /\ b.accept <=> (b.lrand < Val(b.ref_before) - b.logqp)

\* the first block of a cold start that raises the log-ratio above that of
\* the prior draw, accepted on the largest draw
C9_Witness ==
    /\ BlockStepMade
    /\ bcall.cold /\ Val(blast).sweep = 0 /\ Val(blast).block = 0
    /\ Val(blast).accept
    /\ Val(blast).lrand = -1
    /\ LET e == Evaluate(Val(blast).x_before)
       IN Val(blast).logqp > (e.logq - e.logp) + 1

\* C10: a sample_ call whose n_blocks (an int) does not divide nvar ends in
\* an error before any sweep: no block updater is set up, no block is
\* updated, _ref and the history are as the call found them.
C10_NonDividingFails ==
    bnum.calls > 0 =>
        LET n == bcall.n_blocks
            divides == IF Val(n) = 0 THEN FALSE ELSE prior.nvar % Val(n) = 0
        IN (IsInt(n) /\ ~divides) =>
              /\ bpc = "idle"
              /\ bres \in {"AssertionError", "ZeroDivisionError"}
              /\ bcall.steps = 0
              /\ blast = None
              /\ prior = bcall.prior0
              /\ ref = bcall.ref0
              /\ history = bcall.history0

\* a failing call after a call that returned: there is a reference, a
\* history and a block updater that the failing call leaves alone
C10_Witness ==
    /\ bnum.calls = 2
    /\ bres = "AssertionError"
    /\ bcall.n_blocks = Some(3) /\ prior.nvar = 4
    /\ ref.sample # None
    /\ history.accept_rate # <<>>
    /\ prior.blockupdater # None


\* ---------------------------------------------------------------------------
\* transfer: CouplingList_.transfer (104-111), RQSplineList_.transfer
\* (344-356), MultiRQSplineList_.transfer (510-522).  An engine is here its
\* class, its control variant and the attributes its __init__ has set.
\* ---------------------------------------------------------------------------

\* python's dict update: the entries of g over those of f
Merge(f, g) ==
    [k \in (DOMAIN f) \cup (DOMAIN g) |-> IF k \in DOMAIN g THEN g[k] ELSE f[k]]

Restrict(f, S) == [k \in S |-> f[k]]

\* the keyword parameters of each __init__ with their defaults:
\* CouplingList_ (52-54), RQSplineList_ (234-237), MultiRQSplineList_
\* (373-377), CntrCouplingList_ (161)
BaseDefaults == [channels_axis |-> 1, zee2sym |-> FALSE, label |-> "coupling_"]

ClassDefaults(cls) ==
    CASE cls = "RQSplineList_" ->
            [xlim |-> <<0, 1>>, ylim |-> <<0, 1>>, knots_x |-> None,
             knots_y |-> None, extrap |-> "{}"]
      [] cls = "MultiRQSplineList_" ->
            [xlims |-> <<<<0, 1>>, <<0, 1>>>>, ylims |-> <<<<0, 1>>, <<0, 1>>>>,
             knots_x |-> <<None, None>>, knots_y |-> <<None, None>>,
             extraps |-> <<"{}", "{}">>]
      [] OTHER -> <<>>

CntrDefaults(cntr) ==
    IF cntr = "generated" THEN [control_generator |-> None] ELSE <<>>

Defaults(cls, cntr) ==
    Merge(Merge(BaseDefaults, ClassDefaults(cls)), CntrDefaults(cntr))

Raised(what) == [raised |-> what, engine |-> None]

\* cls(*args, **kwargs): the __init__ chain of the class.  nets is the one
\* positional parameter, mask a required keyword, every other keyword must be
\* a parameter of one __init__ of the chain
Construct(cls, cntr, args, kwargs) ==
    IF Len(args) # 1 \/ "mask" \notin DOMAIN kwargs
          \/ ~ ((DOMAIN kwargs) \ {"mask"} \subseteq DOMAIN Defaults(cls, cntr))
    THEN Raised("TypeError")
    ELSE [raised |-> "none",
          engine |-> Some([cls |-> cls, cntr |-> cntr,
                           attrs |-> Merge(Merge(Defaults(cls, cntr), kwargs),
                                           [nets |-> args[1]])])]

\* net.transfer(scale_factor) of a parametric function: the same function
\* for a domain rescaled by scale_factor
NetTransfer(net, scale_factor) == [net EXCEPT !.scale = net.scale * scale_factor]

TransferredNets(nets, scale_factor) ==
    [k \in 1..Len(nets) |-> NetTransfer(nets[k], scale_factor)] \o <<>>

MaskArg(self, mask) == IF mask = None THEN self.attrs.mask ELSE Val(mask)

\* CouplingList_.transfer (104-111)
CouplingList_transfer(self, scale_factor, mask) ==
    Construct(self.cls, self.cntr,
              <<TransferredNets(self.attrs.nets, scale_factor)>>,
              Merge([mask |-> MaskArg(self, mask)],
                    Restrict(self.attrs, {"label", "channels_axis", "zee2sym"})))

\* RQSplineList_.transfer (344-356) and MultiRQSplineList_.transfer
\* (510-522): the arguments are evaluated first, self.net0 the first of them
SplineTransfer(self, scale_factor, mask, read, passed) ==
    IF ~ ({"net0", "net1"} \subseteq DOMAIN self.attrs)
    THEN Raised("AttributeError")
    ELSE Construct(self.cls, self.cntr,
                   <<NetTransfer(self.attrs.net0, scale_factor),
                     NetTransfer(self.attrs.net1, scale_factor)>>,
                   Merge([mask |-> MaskArg(self, mask)],
                         Merge(Restrict(self.attrs, {"label", "channels_axis"}),
                               [k \in DOMAIN passed |-> self.attrs[read[k]]])))

RQSplineList_transfer(self, scale_factor, mask) ==
    LET names == {"xlim", "ylim", "knots_x", "knots_y", "extrap"}
    IN SplineTransfer(self, scale_factor, mask, [k \in names |-> k],
                      [k \in names |-> k])

MultiRQSplineList_transfer(self, scale_factor, mask) ==
    LET read == [xlim |-> "xlims", ylim |-> "ylims", knots_x |-> "knots_x",
                 knots_y |-> "knots_y", extrap |-> "extraps"]
    IN SplineTransfer(self, scale_factor, mask, read, read)

\* the transfer the class of self resolves to
transfer(self, scale_factor, mask) ==
    CASE self.cls = "RQSplineList_" -> RQSplineList_transfer(self, scale_factor, mask)
      [] self.cls = "MultiRQSplineList_" ->
            MultiRQSplineList_transfer(self, scale_factor, mask)
      [] OTHER -> CouplingList_transfer(self, scale_factor, mask)

ScaleFactors == {1, 2}
TransferNets == {[kind |-> k, scale |-> 1] : k \in NetKinds}

InitTransfer ==
    /\ \E cls \in CouplingClasses, cntr \in ControlVariants,
          nets \in SeqsUpTo(TransferNets, MaxLayers), zee2sym \in BOOLEAN :
          tr_self = Val(Construct(cls, cntr, <<nets>>,
                         Merge([mask |-> NewMask(CplShape, 0, TRUE, "even-odd"),
                                zee2sym |-> zee2sym],
                               IF cntr = "generated"
                               THEN [control_generator |-> Some("generator")]
                               ELSE <<>>)).engine)
    /\ \E scale_factor \in ScaleFactors,
          mask \in {None, Some(NewMask(CplShape, 1, TRUE, "even-odd"))} :
          tr_arg = [scale_factor |-> scale_factor, mask |-> mask]
    /\ tr_out = None
    /\ tpc = "call"

Transfer ==
    /\ tpc = "call"
    /\ tr_out' = Some(transfer(tr_self, tr_arg.scale_factor, tr_arg.mask))
    /\ tpc' = "done"
    /\ UNCHANGED <<tr_self, tr_arg, gen, rate_out, count_out>>
    /\ UNCHANGED <<metVars, objVars, smpVars, mskVars, cplVars, blkVars>>

InitTransferSpec ==
    IdleMetropolis /\ InitSampler /\ IdleMask /\ IdleCoupling /\ IdleBlocked
    /\ InitTransfer /\ IdleGenerator /\ IdleRate /\ IdleCount

NextTransfer == Transfer

SpecTransfer == InitTransferSpec /\ [][NextTransfer]_vars

\* the engine a transfer call returned has the class, the layers, the mask
\* and the configuration asked of it
SameEngineTransferred ==
    LET out == Val(tr_out)
        new == Val(out.engine)
    IN /\ out.raised = "none"
       /\ new.cls = tr_self.cls /\ new.cntr = tr_self.cntr
       /\ new.attrs.nets = TransferredNets(tr_self.attrs.nets, tr_arg.scale_factor)
       /\ new.attrs.mask = MaskArg(tr_self, tr_arg.mask)
       /\ \A name \in (DOMAIN tr_self.attrs) \ {"nets", "mask"} :
             new.attrs[name] = tr_self.attrs[name]

\* C12: for every coupling-list variant, transfer returns without raising a
\* new engine of the same class with the same layers in the same order, each
\* parametric function replaced by its own transfer(scale_factor), the same
\* mask and the same variant configuration, the control generator included
C12_TransferKeepsEngine == tpc = "done" => SameEngineTransferred

\* C12, the part the code keeps: the transfer of a shift or affine list
\* without a control generator returns such an engine
C12_PlainTransferKeepsEngine ==
    (/\ tpc = "done"
     /\ tr_self.cls \in {"ShiftList_", "AffineList_"}
     /\ tr_self.cntr # "generated") => SameEngineTransferred

\* a spline list whose transfer raised
C12_SplineTransferRaised ==
    /\ tpc = "done"
    /\ tr_self.cls = "RQSplineList_"
    /\ Val(tr_out).raised = "AttributeError"

\* a controlled shift list whose transfer returned an engine without the
\* control generator
C12_GeneratorDropped ==
    /\ tpc = "done"
    /\ tr_self.cls = "ShiftList_" /\ tr_self.cntr = "generated"
    /\ Val(tr_out).raised = "none"
    /\ Val(Val(tr_out).engine).attrs.control_generator = None
    /\ tr_self.attrs.control_generator # None


\* ---------------------------------------------------------------------------
\* claim C13: a batch of constant logqp, and the range of the acceptance rate
\* ---------------------------------------------------------------------------

ConstantBatch == \A i, j \in 1..Len(logqp) : logqp[i] = logqp[j]

\* np.mean(status) of a status that is not empty lies in [0, 1]
RateInRange(seq) ==
    Len(seq) > 0 => /\ Mean(seq).den > 0
                    /\ 0 <= Mean(seq).num /\ Mean(seq).num <= Mean(seq).den

\* C13: when every entry of logqp has the same value v, calc_accept_status
\* accepts every entry that follows an accepted one, and it accepts every
\* entry, the first included, when the starting reference is absent or not
\* below v; the acceptance rate of a status that is not empty is in [0, 1]
C13_ConstantBatchAccepted ==
    StatusReturned =>
        /\ ConstantBatch =>
              /\ \A i \in 1..Len(status) :
                    (\E j \in 1..(i - 1) : status[j]) => status[i]
              /\ (logqp_ref = None
                  \/ (Len(logqp) > 0 /\ Val(logqp_ref) >= logqp[1]))
                    => \A i \in 1..Len(status) : status[i]
        /\ RateInRange(status)

\* C13 as stated: with constant logqp every entry after the first is
\* accepted, whatever the starting reference
C13_ConstantBatchAsStated ==
    (StatusReturned /\ ConstantBatch) => \A i \in 2..Len(status) : status[i]

\* a constant batch tested against a lower reference: rejected, rejected,
\* accepted, accepted
C13_Witness ==
    /\ mpc = "status_done"
    /\ ConstantBatch /\ Len(logqp) = 4
    /\ logqp_ref # None /\ Val(logqp_ref) < logqp[1]
    /\ status = <<FALSE, FALSE, TRUE, TRUE>>
    /\ Mean(status) = [num |-> 2, den |-> 4]


\* ---------------------------------------------------------------------------
\* the history of a sampler over its calls: MCMCSampler.sample_ (28-49),
\* BlockedMCMCSampler.sample_ (124-172), MCMCHistory.reset_history (209-216)
\* ---------------------------------------------------------------------------

\* mcmc.py:210-216
EmptyHistory ==
    [logq |-> <<>>, logp |-> <<>>, raw_logq |-> <<>>, raw_logp |-> <<>>,
     accept_seq |-> <<>>, accept_ind |-> <<>>, accept_rate |-> <<>>]

\* mcmc.py:209-216   reset_history, called between two sample_ calls
ResetHistory ==
    /\ bpc = "idle"
    /\ history # EmptyHistory
    /\ history' = EmptyHistory
    /\ UNCHANGED <<ref, metVars, smpVars, mskVars, cplVars, blkVars, extVars>>

\* the sampler is an MCMCSampler (no prior is held), or a BlockedMCMCSampler
InitHistorySpec == InitSamplerSpec \/ InitBlockedSpec

NextHistory ==
    \/ prior = None /\ SampleCall
    \/ prior # None /\ NextBlocked
    \/ ResetHistory

SpecHistory == InitHistorySpec /\ [][NextHistory]_vars

IsPrefix(a, b) == Len(a) <= Len(b) /\ SubSeq(b, 1, Len(a)) = a

\* this step is the return of a sample_ call, of either sampler
SampleReturns == calls' # calls \/ (bpc = "finish" /\ bres' = "returned")

\* the bookkeeping argument of the call that returns in this step
BookkeepingOfCall == IF prior = None THEN Last(bookkept') ELSE bcall.bookkeeping

HistoryStep ==
    \/ ResetHistory
    \/ /\ \A f \in DOMAIN EmptyHistory : IsPrefix(history[f], history'[f])
       /\ IF SampleReturns
          THEN /\ Len(history'.accept_rate) = Len(history.accept_rate) + 1
               /\ ~BookkeepingOfCall =>
                     \A f \in (DOMAIN EmptyHistory) \ {"accept_rate"} :
                        history'[f] = history[f]
          ELSE history' = history

\* C14: every sample_ call that returns, of MCMCSampler and of
\* BlockedMCMCSampler, appends exactly one entry to history.accept_rate,
\* with bookkeeping or without; without bookkeeping no other sequence of the
\* history changes; and apart from reset_history no step changes or removes
\* an entry already recorded
C14_HistoryOnlyGrows == [][HistoryStep]_vars

\* two calls of an MCMCSampler, the first with bookkeeping, the second
\* without: two acceptance rates, one entry in every other sequence
C14_Witness ==
    /\ prior = None
    /\ bookkept = <<TRUE, FALSE>>
    /\ Len(history.accept_rate) = 2
    /\ \A f \in (DOMAIN EmptyHistory) \ {"accept_rate"} : Len(history[f]) = 1

\* the same for a BlockedMCMCSampler whose second call had no bookkeeping
C14_BlockedWitness ==
    /\ prior # None
    /\ bres = "returned" /\ bnum.calls = 2 /\ ~bcall.bookkeeping
    /\ Len(history.accept_rate) = 2
    /\ Len(history.logq) = 1 /\ Len(history.accept_seq) = 1


\* ---------------------------------------------------------------------------
\* MCMCSampler.serial_sample_generator (mcmc.py:85-93): a generator object,
\* resumed by the consumer one next() at a time
\* ---------------------------------------------------------------------------

MaxSamples == 4
MaxBatch == 3

\* the log-uniform draws of the sample_ calls the generator makes
GenLrand == {-1}

\* mcmc.py:90   ind = i % batch_size
BatchIndexZero(i, batch_size) == 0
BatchIndex(i, batch_size) == i % batch_size

\* the generator as created: no line of its body has run
InitGenerator ==
    \E n_samples \in 0..MaxSamples, batch_size \in 0..MaxBatch :
        gen = [n_samples |-> n_samples, batch_size |-> batch_size, i |-> 0,
               y |-> <<>>, pc |-> "created", yielded |-> <<>>, called_at |-> <<>>]

\* this next() runs the loop body for i
GenResumes ==
    /\ gen.pc \in {"created", "suspended"}
    /\ gen.i < gen.n_samples
    /\ gen.batch_size # 0

\* mcmc.py:91-93   next(): ind == 0, sample_(batch_size) is called and
\* element 0 of the new batch is yielded
GenNextCalls ==
    /\ GenResumes
    /\ BatchIndex(gen.i, gen.batch_size) = 0
    /\ \E qp \in [1..gen.batch_size -> LogPairs],
          r \in [1..gen.batch_size -> GenLrand] :
          SampleStep(gen.batch_size, FALSE, qp, r)
    /\ LET y == SubSeq(emitted', Len(emitted) + 1, Len(emitted'))
       IN gen' = [gen EXCEPT !.y = y, !.i = @ + 1, !.pc = "suspended",
                             !.yielded = Append(@, y[1]),
                             !.called_at = Append(@, Len(gen.yielded))]
    /\ UNCHANGED <<trnVars, rate_out, count_out>>
    /\ UNCHANGED <<metVars, mskVars, cplVars, blkVars>>

\* mcmc.py:93   next(): ind # 0, element ind of the batch held is yielded
GenNextYields ==
    /\ GenResumes
    /\ BatchIndex(gen.i, gen.batch_size) # 0
    /\ gen' = [gen EXCEPT !.i = @ + 1, !.pc = "suspended",
                          !.yielded = Append(@, gen.y[BatchIndex(gen.i, gen.batch_size) + 1])]
    /\ UNCHANGED <<trnVars, rate_out, count_out>>
    /\ UNCHANGED <<metVars, objVars, smpVars, mskVars, cplVars, blkVars>>

\* mcmc.py:89   next(): range(n_samples) is exhausted, StopIteration
GenStops ==
    /\ gen.pc \in {"created", "suspended"}
    /\ gen.i >= gen.n_samples
    /\ gen' = [gen EXCEPT !.pc = "exhausted"]
    /\ UNCHANGED <<trnVars, rate_out, count_out>>
    /\ UNCHANGED <<metVars, objVars, smpVars, mskVars, cplVars, blkVars>>

\* mcmc.py:90   next(): i % 0 raises
GenRaises ==
    /\ gen.pc = "created"
    /\ gen.i < gen.n_samples
    /\ gen.batch_size = 0
    /\ gen' = [gen EXCEPT !.pc = "ZeroDivisionError"]
    /\ UNCHANGED <<trnVars, rate_out, count_out>>
    /\ UNCHANGED <<metVars, objVars, smpVars, mskVars, cplVars, blkVars>>

InitGeneratorSpec ==
    IdleMetropolis /\ InitSampler /\ IdleMask /\ IdleCoupling /\ IdleBlocked
    /\ IdleTransfer /\ InitGenerator /\ IdleRate /\ IdleCount

NextGenerator == GenNextCalls \/ GenNextYields \/ GenStops \/ GenRaises

SpecGenerator == InitGeneratorSpec /\ [][NextGenerator]_vars

\* ceil(k / n) for n > 0
CeilDiv(k, n) == (k + n - 1) \div n

\* C15: with batch_size >= 1, serial_sample_generator yields n_samples
\* samples before it is exhausted; after k yields it has called
\* sample_(batch_size) ceil(k / batch_size) times, once before each of the
\* draws 0, batch_size, 2 * batch_size, ... and at no other time; and the
\* samples yielded are the first k of the concatenated chained batches
C15_SerialGenerator ==
    gen.batch_size >= 1 =>
        LET k == Len(gen.yielded)
        IN /\ gen.pc # "ZeroDivisionError"
           /\ k = gen.i /\ k <= gen.n_samples
           /\ gen.pc = "exhausted" => k = gen.n_samples
           /\ gen.pc = "created" => calls = <<>>
           /\ Len(gen.called_at) = CeilDiv(k, gen.batch_size)
           /\ \A j \in 1..Len(gen.called_at) :
                 gen.called_at[j] = (j - 1) * gen.batch_size
           /\ calls = [j \in 1..Len(gen.called_at) |-> gen.batch_size]
           /\ \A i \in 0..(k - 1) :
                 gen.yielded[i + 1] =
                    emitted[(i \div gen.batch_size) * gen.batch_size
                            + (i % gen.batch_size) + 1]
           /\ gen.yielded = SubSeq(emitted, 1, k)

\* a generator exhausted after 4 yields from two batches of 3, the second
\* batch opened by a rejected proposal
C15_Witness ==
    /\ gen.pc = "exhausted"
    /\ gen.n_samples = 4 /\ gen.batch_size = 3
    /\ Len(gen.yielded) = 4 /\ Len(calls) = 2 /\ Len(emitted) = 6
    /\ ~chain_status[4]
    /\ gen.yielded[4] = gen.yielded[3]
    /\ gen.yielded[1].y # gen.yielded[2].y


\* ---------------------------------------------------------------------------
\* MCMCSampler.calc_accept_rate (mcmc.py:95-112) between sample_ calls
\* ---------------------------------------------------------------------------

\* mcmc.py:105   calc_accept_status(logqp): no logqp_ref is given
RateRefPersisted(r) == r.logqp
RateRef(r) == None

\* mcmc.py:104-105   calc_rate on the array lq, with the draws rr
calc_rate(lq, rr, r) == Mean(calc_accept_status(lq, rr, RateRef(r)))

\* Resampler().eval(logqp, fn=calc_rate, n_resamples): fn is applied to
\* n_resamples arrays drawn with replacement from logqp; the arrays are
\* pick[k], the positions of logqp entry by entry
Resamples(lq, pick) ==
    [k \in 1..Len(pick) |-> [i \in 1..Len(lq) |-> lq[pick[k][i]]]]

RateBatchSizes == {1, 2}
RateResamples == {1, 2}

\* sample_ with the draws of GenLrand
RateSampleCall ==
    /\ \E n \in 1..(MaxChain - Len(proposals)), bookkeeping \in BOOLEAN :
       \E qp \in [1..n -> LogPairs], r \in [1..n -> GenLrand] :
          SampleStep(n, bookkeeping, qp, r)
    /\ UNCHANGED <<metVars, mskVars, cplVars, blkVars, extVars>>

\* mcmc.py:96-112   calc_accept_rate(batch_size, n_resamples): the rates of
\* the resamples (their mean and standard deviation are returned), and, for
\* comparison, the rates the persisted reference would have given; one
\* call is followed in a behaviour
CalcAcceptRate ==
    /\ rate_out = None
    /\ \E n \in RateBatchSizes, n_resamples \in RateResamples :
       \E qp \in [1..n -> LogPairs], pick \in [1..n_resamples -> [1..n -> 1..n]] :
          LET lq == [i \in 1..n |-> qp[i][1] - qp[i][2]]
              rr == [i \in 1..n |-> -1]
              arrays == Resamples(lq, pick)
          IN rate_out' =
                [at |-> Len(calls),
                 rates |-> [k \in 1..n_resamples |-> calc_rate(arrays[k], rr, ref)],
                 chained |-> [k \in 1..n_resamples |->
                                 Mean(calc_accept_status(arrays[k], rr, ref.logqp))]]
    /\ UNCHANGED <<trnVars, gen, count_out>>
    /\ UNCHANGED <<metVars, objVars, smpVars, mskVars, cplVars, blkVars>>

InitRateSpec == InitSamplerSpec

NextRate == RateSampleCall \/ CalcAcceptRate

SpecRate == InitRateSpec /\ [][NextRate]_vars

\* a step that is a calc_accept_rate call: it leaves _ref, the history and
\* everything a sample_ call reads as they were, and every rate it computed
\* counts the first entry as accepted, as an evaluation with no starting
\* reference does
RateStep ==
    rate_out' # rate_out =>
        /\ ref' = ref /\ history' = history
        /\ smpVars' = smpVars
        /\ \A k \in 1..Len(rate_out'.rates) : rate_out'.rates[k].num >= 1

\* C16: calc_accept_rate evaluates acceptance with no starting reference,
\* not the persisted _ref, and leaves _ref and every history sequence
\* unchanged, so the sample_ call that follows starts from the state it
\* would have started from without it
C16_RateIndependentOfChain == [][RateStep]_vars

\* calc_accept_rate called between two sample_ calls, on a batch the
\* persisted reference would have rated differently
C16_Witness ==
    /\ rate_out # None
    /\ rate_out.at = 1 /\ Len(calls) = 2
    /\ rate_out.rates # rate_out.chained
    /\ history.accept_rate # <<>>


\* ---------------------------------------------------------------------------
\* claim C17: the order of a blocked sample_ call
\* ---------------------------------------------------------------------------

\* the positions of the log holding an operation of kind op
LogAt(op) == {k \in 1..Len(bcall.log) : bcall.log[k].op[1] = op}

\* how many positions of kind op come before position k
Before(op, k) == Cardinality({j \in LogAt(op) : j < k})

\* C17: a sample_(batch_size, n_blocks) call that returns has run batch_size
\* sweeps; each sweep updates the blocks 0..n_blocks-1 in index order, each
\* once, and decides a block before the next is updated; restore is called
\* once for each rejected block, right after its rejection and for its
\* index, and never for an accepted block; the acceptance matrix is
\* batch_size x n_blocks with entry (s, b) the decision for block b of
\* sweep s; and the sample emitted for sweep s is the flow image of the
\* configuration after block n_blocks-1 of sweep s
C17_SweepOrder ==
    (bcall # None /\ bres \in {"none", "returned"}) =>
        LET log == bcall.log
            nb == bcall.nb
        IN /\ \A k \in LogAt("blockupdater") :
                 /\ log[k].sweep = Before("blockupdater", k) \div nb
                 /\ log[k].op[2] = Before("blockupdater", k) % nb
                 /\ k < Len(log) /\ log[k + 1].op[1] = "decide"
                 /\ log[k + 1].op[2] = log[k].op[2]
                 /\ log[k + 1].sweep = log[k].sweep
           /\ \A k \in LogAt("decide") :
                 /\ k > 1 /\ log[k - 1].op[1] = "blockupdater"
                 /\ IF log[k].op[3]
                    THEN k < Len(log) => log[k + 1].op[1] # "restore"
                    ELSE /\ k < Len(log) /\ log[k + 1].op[1] = "restore"
                         /\ log[k + 1].op[2] = log[k].op[2]
                         /\ log[k + 1].sweep = log[k].sweep
                 /\ log[k].sweep < Len(bcall.accept_seq) =>
                       bcall.accept_seq[log[k].sweep + 1][log[k].op[2] + 1]
                          = log[k].op[3]
           /\ \A k \in LogAt("restore") :
                 k > 1 /\ log[k - 1].op[1] = "decide" /\ ~log[k - 1].op[3]
           /\ \A k \in LogAt("net_") :
                 /\ Before("blockupdater", k) = (log[k].sweep + 1) * nb
                 /\ log[k].sweep = Before("net_", k)
                 /\ bcall.cfgs[log[k].sweep + 1] = net_forward(log[k].op[2]).y
           /\ Len(bcall.cfgs) = Cardinality(LogAt("net_"))
           /\ Len(bcall.accept_seq) = Cardinality(LogAt("net_"))
           /\ \A s \in 1..Len(bcall.accept_seq) : Len(bcall.accept_seq[s]) = nb
           /\ bres = "returned" =>
                 /\ Cardinality(LogAt("net_")) = bcall.batch_size
                 /\ Cardinality(LogAt("blockupdater")) = bcall.batch_size * nb
                 /\ Len(bcall.accept_seq) = bcall.batch_size

\* a call of two sweeps of two blocks has returned, with a rejected block
\* in the first sweep and an accepted one after it
C17_Witness ==
    /\ bcall # None /\ bres = "returned"
    /\ bcall.batch_size = 2 /\ bcall.nb = 2
    /\ ~bcall.accept_seq[1][2] /\ bcall.accept_seq[2][1]
    /\ Cardinality(LogAt("restore")) >= 1


\* ---------------------------------------------------------------------------
\* claim C18: the control of DirectCntrCouplingList_
\* ---------------------------------------------------------------------------

\* what a pass over the layers, forward or backward, was fed: the control
\* at layer 0 and the complementary channel 1 - k mod 2 at every other layer
ControlFedToLayerZero(pass) ==
    /\ Len(pass.fed) = Len(pass.visited)
    /\ \A j \in 1..Len(pass.fed) :
          LET k == pass.visited[j].layer
          IN pass.fed[j] = IF k = 0 THEN <<"control">> ELSE <<"x", 1 - (k % 2)>>

\* C18: in DirectCntrCouplingList_ forward and backward feed the control as
\* the frozen input of layer 0 and of no other layer, every layer k >= 1 is
\* fed the complementary channel x[1 - k mod 2], and the control is
\* returned unchanged with the transformed data
C18_ControlFeedsLayerZero ==
    (cpl_self # None /\ cpl_self.cntr = "direct") =>
        /\ cpc \in {"forwarded", "inverted"} =>
              /\ ControlFedToLayerZero(cpl_fwd)
              /\ cpl_fwd.control = cpl_x.control /\ cpl_fwd.control # None
        /\ cpc = "inverted" =>
              /\ ControlFedToLayerZero(cpl_bwd)
              /\ cpl_bwd.control = cpl_x.control

\* three layers, forward and backward done, with a control that made
\* forward return something else than it returns without control
C18_Witness ==
    /\ cpl_self # None /\ cpl_self.cntr = "direct"
    /\ cpc = "inverted"
    /\ Len(cpl_self.nets) = 3
    /\ cpl_fwd.fed = <<<<"control">>, <<"x", 0>>, <<"x", 1>>>>
    /\ cpl_bwd.fed = <<<<"x", 1>>, <<"x", 0>>, <<"control">>>>
    /\ cpl_fwd.x # CouplingForward(cpl_self, cpl_x.x, None, 0).x


\* ---------------------------------------------------------------------------
\* Metropolis.calc_accept_count (mcmc.py:310-315)
\* ---------------------------------------------------------------------------

\* mcmc.py:313   np.where(status)[0]: the 0-based positions of the True ones
RECURSIVE WhereFrom(_, _)
WhereFrom(seq, i) ==
    IF i > Len(seq) THEN <<>>
    ELSE (IF seq[i] THEN <<i - 1>> ELSE <<>>) \o WhereFrom(seq, i + 1)

Where(seq) == WhereFrom(seq, 1)

\* mcmc.py:314   ind[1:] - ind[:-1]
Diffs(ind) == [j \in 1..(Len(ind) - 1) |-> ind[j + 1] - ind[j]]

\* the names calc_accept_count can read: its parameter and locals
\* (311-314), and the names bound at the top level of mcmc.py (4-11, 15,
\* 116, 203, 278) or built in
CountLocals == {"status", "ind", "mul"}
ModuleNames == {"torch", "np", "copy", "torch_device", "seize", "estimate_logz",
                "fmt_val_err", "Resampler", "MCMCSampler", "BlockedMCMCSampler",
                "MCMCHistory", "Metropolis", "len", "list"}

\* mcmc.py:311-315: ind[0] of an empty ind raises IndexError; then
\* len(states) is evaluated, and states is the name of nothing
calc_accept_count(seq) ==
    LET ind == Where(seq)
    IN IF ind = <<>> THEN [raised |-> "IndexError", value |-> None]
       ELSE IF "states" \notin CountLocals \cup ModuleNames
            THEN [raised |-> "NameError", value |-> None]
            ELSE [raised |-> "none",
                  value |-> Some(<<ind[1], Diffs(ind)>>)]

\* calc_accept_count(status) on a status calc_accept_status returned, or on
\* a given one
CalcAcceptCount ==
    /\ mpc \in {"status_done", "indices_call"}
    /\ count_out' = calc_accept_count(status)
    /\ mpc' = "count_done"
    /\ UNCHANGED <<logqp, rand_arr, logqp_ref, status, indices>>
    /\ UNCHANGED <<trnVars, gen, rate_out>>
    /\ UNCHANGED <<objVars, smpVars, mskVars, cplVars, blkVars>>

InitCountSpec == InitMetropolis

NextCount == CalcAcceptStatus \/ CalcAcceptStatusRaise \/ CalcAcceptCount

SpecCount == InitCountSpec /\ [][NextCount]_vars

SomeAccepted == \E i \in 1..Len(status) : status[i]

\* the counts of the claim: from each accepted position to the next one,
\* and from the last one to the end of the sequence
CountsOf(seq) ==
    LET ind == Where(seq)
    IN [j \in 1..Len(ind) |->
           IF j < Len(ind) THEN ind[j + 1] - ind[j] ELSE Len(seq) - ind[j]]

\* C19: for a status with at least one accepted position calc_accept_count
\* returns, without raising, the index of the first accepted position and
\* one count per accepted position, the counts summing to the length of
\* the sequence minus that index
C19_CountsReturned ==
    (mpc = "count_done" /\ SomeAccepted) =>
        /\ count_out.raised = "none"
        /\ Val(count_out.value) = <<Where(status)[1], CountsOf(status)>>
        /\ SumSeq(CountsOf(status)) = Len(status) - Where(status)[1]

\* C19, what the code does: with an accepted position the call raises
\* NameError, without one IndexError; it never returns
C19_CountRaises ==
    mpc = "count_done" =>
        count_out.raised = IF SomeAccepted THEN "NameError" ELSE "IndexError"

\* the call on a status with two accepted positions has raised
C19_NameError ==
    /\ mpc = "count_done"
    /\ status = <<FALSE, TRUE, FALSE, TRUE>>
    /\ count_out.raised = "NameError"


\* ---------------------------------------------------------------------------
\* claim C20: the carried reference of the blocked sampler
\* ---------------------------------------------------------------------------

\* logq - logp of the configuration x (mcmc.py:186-188, 195)
RatioOf(x) == Evaluate(x).logq - Evaluate(x).logp

\* C20: whenever the carried logqp_ref is defined it is logq - logp of the
\* current configuration x; after each sweep it is logq - logp of the sample
\* emitted for that sweep; the reference a call leaves in _ref is logq - logp
\* of the last sample it emitted, and the next call starts from that
\* reference and from the pre-image of that sample
C20_RefIsRatioOfX ==
    /\ (bpc \in {"sweep", "finish"} /\ bref # None) => Val(bref) = RatioOf(bx)
    /\ (bpc \in {"sweep", "finish"} /\ bcall.blk = 0 /\ bcall.ind > 0) =>
          /\ bref # None
          /\ Val(bref) = Last(bcall.logq) - Last(bcall.logp)
          /\ Last(bcall.cfgs) = net_forward(bx).y
    /\ (prior # None /\ ref.sample # None) =>
          /\ ref.logqp = Some(Val(ref.logq) - Val(ref.logp))
          /\ Val(ref.logqp) = RatioOf(net_backward(Val(ref.sample)))
    /\ (bpc = "idle" /\ bres = "returned") =>
          /\ ref.sample = Some(Last(bcall.cfgs))
          /\ Val(ref.logqp) = Last(bcall.logq) - Last(bcall.logp)
    /\ (bpc \in {"sweep", "finish"} /\ bcall.steps = 0 /\ ~bcall.cold) =>
          /\ bref = bcall.ref0.logqp /\ bref # None
          /\ bx = net_backward(Val(bcall.ref0.sample))
          /\ net_forward(bx).y = Val(bcall.ref0.sample)

\* in a second call, started from the sample the first one left, a block
\* has just been rejected and the reference is the one the call started from
C20_Witness ==
    /\ bpc = "sweep" /\ bnum.calls = 2 /\ ~bcall.cold
    /\ blast # None /\ ~Val(blast).accept
    /\ Val(blast).x_updated # bx
    /\ bref = bcall.ref0.logqp /\ bref # None

====
